---- MODULE Spec2Model ----
(***************************************************************************)
(* Model of the ingestion-and-query core of datalyze-core:                *)
(*   - LLMService   (src/src/services/llmService/index.ts)                 *)
(*   - SqliteService (src/src/services/sqliteService/index.ts)             *)
(*   - S3Service    (src/src/services/s3Service/index.ts)                  *)
(*   - fileController and chatController (src/src/controllers, part_007)   *)
(* Text is modelled as a sequence of tokens; a thrown value as a record.   *)
(***************************************************************************)
EXTENDS Integers, Sequences, FiniteSets, TLC

VARIABLES
  llmBuild,    \* which copy of services/llmService is built
  call,        \* schema builder: the function applied and its arguments
  outcome,     \* schema builder: what the function produced
  reply,       \* SQL extraction: the oracle's reply handed to the extractor
  extracted,   \* SQL extraction: what extractSqlQueryAndTile produced
  ing,         \* ingestion pipeline: one run of jsonToSqlite / csvToSqlite
  apiKey,      \* LLMService.OPENAI_API_KEY is set
  datasets,    \* metadata store: datasets table, id -> row
  chats,       \* metadata store: chats table, id -> row
  messages,    \* metadata store: chat_messages, chat id -> rows in order
  blobs,       \* blob store: key -> content
  tempFiles,   \* the scratch directory uploads/temp: path -> content
  uuids,       \* how many unique ids uuidv4() has handed out
  ops          \* the requests in flight or finished, one per slot

stores == <<apiKey, datasets, chats, messages, blobs, tempFiles, uuids, ops>>

vars == <<llmBuild, call, outcome, reply, extracted, ing, apiKey, datasets, chats, messages,
          blobs, tempFiles, uuids, ops>>

(***************************************************************************)
(* Bounds                                                                  *)
(***************************************************************************)
MaxReplyLen == 7

MaxBatch == 3

\* fields of a representative record
MaxFields == 3

(***************************************************************************)
(* Text as token sequences.  "fence" is the triple backquote, "sql"/"SQL" the language    *)
(* tag, " " and "\n" white space, "x" and "y" any other character run.     *)
(***************************************************************************)
Fence == "fence"

Alphabet == {Fence, "sql", " ", "\n", "x"}

SqlTag == {"sql", "SQL"}

WhiteSpace == {" ", "\n"}

Undefined == <<"undefined">>

NoCall == [fn |-> "none"]

NotBuilt == [done |-> FALSE]

NotRun == [threw |-> FALSE, title |-> <<"not run">>, sqlQuery |-> <<"not run">>]

LlmBuilds == {"index.ts", "part_002"}

\* String.prototype.trim: drop leading and trailing white space
RECURSIVE TrimStart(_)
TrimStart(s) ==
  IF s # <<>> /\ Head(s) \in WhiteSpace THEN TrimStart(Tail(s)) ELSE s

RECURSIVE TrimEnd(_)
TrimEnd(s) ==
  IF s # <<>> /\ s[Len(s)] \in WhiteSpace
    THEN TrimEnd(SubSeq(s, 1, Len(s) - 1))
    ELSE s

Trim(s) == TrimEnd(TrimStart(s))

\* index of the first position >= from holding a token of set S, 0 if none
RECURSIVE IndexOf(_, _, _)
IndexOf(s, S, from) ==
  IF from > Len(s) THEN 0
  ELSE IF s[from] \in S THEN from
  ELSE IndexOf(s, S, from + 1)

NoMatch == [found |-> FALSE, title |-> <<>>, sqlQuery |-> <<>>, last |-> 0]

\* one attempt of the regex  fence ([^\n]+) sql \n ([\s\S]*?) fence  (flags gi)
\* anchored at position i
RegexMatchAt(content, i) ==
  IF content[i] # Fence THEN NoMatch
  ELSE
    LET j == IndexOf(content, {"\n"}, i + 1)
        k == IF j = 0 THEN 0 ELSE IndexOf(content, {Fence}, j + 1)
    IN IF /\ j >= i + 4
          /\ content[j - 1] \in SqlTag
          /\ content[j - 2] = " "
          /\ k # 0
         THEN [found |-> TRUE,
               title |-> SubSeq(content, i + 1, j - 3),
               sqlQuery |-> SubSeq(content, j + 1, k - 1),
               last |-> k]
         ELSE NoMatch

\* [...content.matchAll(regex)]: the non-overlapping matches, left to right
RECURSIVE MatchAll(_, _)
MatchAll(content, from) ==
  IF from > Len(content) THEN <<>>
  ELSE LET m == RegexMatchAt(content, from)
       IN IF m.found
            THEN <<m>> \o MatchAll(content, m.last + 1)
            ELSE MatchAll(content, from + 1)

\* what the body of extractSqlQueryAndTile does with matches[0]
ExtractFrom(m) ==
  IF m.sqlQuery # <<>>
    THEN [threw |-> FALSE, title |-> Trim(m.title), sqlQuery |-> Trim(m.sqlQuery)]
    ELSE [threw |-> FALSE, title |-> Undefined, sqlQuery |-> Undefined]

\* mutant: the last match is honoured instead of the first
extractSqlQueryAndTile_last(content) ==
  LET matches == MatchAll(content, 1)
  IN IF matches = <<>>
       THEN [threw |-> TRUE, title |-> Undefined, sqlQuery |-> Undefined]
       ELSE ExtractFrom(matches[Len(matches)])

\* index.ts: const [_, title, sqlQuery] = matches[0] throws a TypeError
\* when there is no match
extractSqlQueryAndTile(content) ==
  LET matches == MatchAll(content, 1)
  IN IF matches = <<>>
       THEN [threw |-> TRUE, title |-> Undefined, sqlQuery |-> Undefined]
       ELSE ExtractFrom(matches[1])

\* part_002: const [_, title, sqlQuery] = matches[0] ?? []
extractSqlQueryAndTile_guarded(content) ==
  LET matches == MatchAll(content, 1)
  IN IF matches = <<>>
       THEN [threw |-> FALSE, title |-> Undefined, sqlQuery |-> Undefined]
       ELSE ExtractFrom(matches[1])

ExtractOf(build, content) ==
  IF build = "index.ts"
    THEN extractSqlQueryAndTile(content)
    ELSE extractSqlQueryAndTile_guarded(content)


(***************************************************************************)
(* The stores shared by all requests                                       *)
(***************************************************************************)
Slots == {"r1", "r2"}

Users == {"u1", "u2"}

DatasetIds == {"d1", "d2", "d3", "d4"}

ChatIds == {"c1", "c2", "c3", "c4"}

NoRow == [user_id |-> "none"]

NoPath == <<>>

TEMP_DIR == "uploads/temp"

privateDatasetPrefix == "private/datasets/"

\* privateDatasetPrefix + userId + "/" + uniqueId + "_" + file.name
KeyOf(userId, uniqueId, name) ==
  <<privateDatasetPrefix, userId, "/", uniqueId, "_">> \o name

\* content of an embedded database file: where it came from and whether a
\* statement has written to it
DbContent(src) == [src |-> src, written |-> FALSE]

InitialDatasets ==
  [d \in DatasetIds |->
     CASE d = "d1" -> [id |-> "d1", user_id |-> "u1", name |-> <<"a", ".db">>,
                       file_key |-> KeyOf("u1", "id1", <<"a", ".db">>)]
       [] d = "d2" -> [id |-> "d2", user_id |-> "u2", name |-> <<"b", ".db">>,
                       file_key |-> KeyOf("u2", "id2", <<"b", ".db">>)]
       [] OTHER -> NoRow]

InitialChats ==
  [c \in ChatIds |->
     CASE c = "c1" -> [id |-> "c1", user_id |-> "u1", dataset_id |-> "d1"]
       [] c = "c2" -> [id |-> "c2", user_id |-> "u2", dataset_id |-> "d2"]
       [] OTHER -> NoRow]

InitialBlobs ==
  (KeyOf("u1", "id1", <<"a", ".db">>) :> DbContent("d1")) @@
  (KeyOf("u2", "id2", <<"b", ".db">>) :> DbContent("d2"))

NoFiles == [p \in {} |-> DbContent("none")]

\* fs.writeFileSync / fs.unlinkSync on the scratch directory
WriteFile(files, path, content) ==
  [p \in DOMAIN files \cup {path} |-> IF p = path THEN content ELSE files[p]]

RemoveFile(files, path) == [p \in DOMAIN files \ {path} |-> files[p]]

(***************************************************************************)
(* Thrown values and results                                               *)
(***************************************************************************)
Err(message) == [isError |-> TRUE, message |-> message]

NotAnError == [isError |-> FALSE, message |-> <<>>]

\* what a collaborator (pg, S3, fetch, the oracle) can throw: an Error with
\* a message, an Error with an empty message, or a value that is no Error
Faults == {Err(<<"boom">>), Err(<<>>), NotAnError}

\* the collaborator call goes through
NoFault == [isError |-> FALSE, message |-> <<"no fault">>]

NoResult ==
  [status |-> "none", content |-> Undefined, error |-> Undefined,
   sqlQuery |-> Undefined, title |-> Undefined, rows |-> Undefined,
   key |-> Undefined, thrown |-> NotAnError, http |-> "none",
   partialSuccess |-> FALSE]

OpIdle ==
  [kind |-> "none", pc |-> "idle", user |-> "none", chatId |-> "none",
   datasetId |-> "none", text |-> <<>>, row |-> NoRow, dbPath |-> NoPath,
   srcPath |-> NoPath, upload |-> Undefined,
   schema |-> Undefined, history |-> <<>>, reply |-> <<>>, mode |-> "none",
   opened |-> FALSE, result |-> NoResult, trace |-> <<>>, fault |-> "none",
   failed |-> FALSE, newName |-> <<>>, newKey |-> Undefined,
   blobsBefore |-> InitialBlobs]

StoresIdle ==
  /\ apiKey = TRUE
  /\ datasets = InitialDatasets
  /\ chats = InitialChats
  /\ messages = [c \in ChatIds |-> <<>>]
  /\ blobs = InitialBlobs
  /\ tempFiles = NoFiles
  /\ uuids = 0
  /\ ops = [s \in Slots |-> OpIdle]

Did(op, event) == \E n \in 1..Len(op.trace) : op.trace[n] = event

InFlight(op) == op.pc \notin {"idle", "returned"}

(***************************************************************************)
(* Relational Ingestion Pipeline: jsonToSqlite and csvToSqlite queue their *)
(* statements on a serialized sqlite3 handle; the engine runs them later,  *)
(* one by one.  Only COMMIT is given a callback.                           *)
(***************************************************************************)
Stmt(op, bad) == [op |-> op, bad |-> bad]

\* a record to insert: "ok" inserts, "bad" makes the engine fail the INSERT
\* (e.g. a field that is no column of the table), "throw" is a null item on
\* which Object.keys throws while the statement is being built
ItemKinds == {"ok", "bad", "throw"}

Batches(K) == UNION {[1..n -> K] : n \in 0..MaxBatch}

IngIdle ==
  [pc |-> "idle", fn |-> "none", queue |-> <<>>, promise |-> "none",
   handle |-> "none", txn |-> FALSE, pendTable |-> FALSE, pendRows |-> 0,
   table |-> FALSE, rows |-> 0, stmtFailed |-> FALSE, commitIssued |-> FALSE,
   rolledBack |-> FALSE]

\* the loop  for (const item of jsonData) this.insertDataIntoTable(...)
RECURSIVE insertDataIntoTable(_)
insertDataIntoTable(items) ==
  IF items = <<>> THEN [stmts |-> <<>>, threw |-> FALSE]
  ELSE IF Head(items) = "throw" THEN [stmts |-> <<>>, threw |-> TRUE]
  ELSE LET rest == insertDataIntoTable(Tail(items))
       IN [stmts |-> <<Stmt("INSERT", Head(items) = "bad")>> \o rest.stmts,
           threw |-> rest.threw]

\* jsonToSqlite with one table: BEGIN, CREATE TABLE, the INSERTs, COMMIT;
\* a synchronous throw goes to catch (ROLLBACK, reject); finally db.close()
jsonToSqlite(items, createBad) ==
  LET q == insertDataIntoTable(items)
  IN [IngIdle EXCEPT
        !.pc = "running",
        !.fn = "jsonToSqlite",
        !.handle = "open",
        !.promise = IF q.threw THEN "rejected" ELSE "pending",
        !.queue = <<Stmt("BEGIN", FALSE), Stmt("CREATE", createBad)>> \o q.stmts
                  \o (IF q.threw THEN <<Stmt("ROLLBACK", FALSE)>>
                                 ELSE <<Stmt("COMMIT", FALSE)>>)
                  \o <<Stmt("CLOSE", FALSE)>>]

\* csvToSqlite: csvToJson may reject before the handle is opened; a throw
\* inside serialize (malformed options.columns) rejects without ROLLBACK
\* and skips db.close()
csvToSqlite(rows, createBad, readFails, badOptions) ==
  IF readFails
    THEN [IngIdle EXCEPT !.pc = "done", !.fn = "csvToSqlite", !.promise = "rejected"]
  ELSE IF badOptions
    THEN [IngIdle EXCEPT
            !.pc = "running", !.fn = "csvToSqlite", !.handle = "open",
            !.promise = "rejected",
            !.queue = <<Stmt("BEGIN", FALSE)>>]
  ELSE [IngIdle EXCEPT
          !.pc = "running", !.fn = "csvToSqlite", !.handle = "open",
          !.promise = "pending",
          !.queue = <<Stmt("BEGIN", FALSE), Stmt("CREATE", createBad)>>
                    \o insertDataIntoTable(rows).stmts
                    \o <<Stmt("COMMIT", FALSE), Stmt("CLOSE", FALSE)>>]

\* does the engine fail this statement in this state
EngineFails(g, st) ==
  \/ st.op = "CREATE" /\ st.bad
  \/ st.op = "INSERT" /\ (st.bad \/ ~(g.table \/ g.pendTable))

Dequeued(g) ==
  [g EXCEPT !.queue = Tail(g.queue),
            !.pc = IF Len(g.queue) = 1 THEN "done" ELSE "running"]

\* the engine runs the next queued statement successfully
EngineRun(g) ==
  LET st == Head(g.queue)
      d == Dequeued(g)
  IN CASE st.op = "BEGIN" -> [d EXCEPT !.txn = TRUE]
       [] st.op = "CREATE" -> [d EXCEPT !.pendTable = TRUE]
       [] st.op = "INSERT" -> [d EXCEPT !.pendRows = g.pendRows + 1]
       [] st.op = "COMMIT" ->
            [d EXCEPT !.txn = FALSE,
                      !.table = g.table \/ g.pendTable,
                      !.rows = g.rows + g.pendRows,
                      !.pendTable = FALSE,
                      !.pendRows = 0,
                      !.commitIssued = TRUE,
                      !.promise = IF g.promise = "pending" THEN "resolved"
                                                           ELSE g.promise]
       [] st.op = "ROLLBACK" ->
            [d EXCEPT !.txn = FALSE, !.pendTable = FALSE, !.pendRows = 0,
                      !.rolledBack = TRUE]
       [] st.op = "CLOSE" ->
            [d EXCEPT !.handle = "closed", !.txn = FALSE,
                      !.pendTable = FALSE, !.pendRows = 0]

InitIngest ==
  /\ llmBuild = "index.ts"
  /\ call = NoCall
  /\ outcome = NotBuilt
  /\ reply = <<>>
  /\ extracted = NotRun
  /\ ing = IngIdle
  /\ StoresIdle

StartJsonToSqlite ==
  /\ ing.pc = "idle"
  /\ \E items \in Batches(ItemKinds) : \E createBad \in BOOLEAN :
       ing' = jsonToSqlite(items, createBad)
  /\ UNCHANGED <<llmBuild, call, outcome, reply, extracted, stores>>

StartCsvToSqlite ==
  /\ ing.pc = "idle"
  /\ \E rows \in Batches({"ok", "bad"}) :
       \E createBad \in BOOLEAN, readFails \in BOOLEAN, badOptions \in BOOLEAN :
         ing' = csvToSqlite(rows, createBad, readFails, badOptions)
  /\ UNCHANGED <<llmBuild, call, outcome, reply, extracted, stores>>

StatementRuns ==
  /\ ing.pc = "running"
  /\ ~EngineFails(ing, Head(ing.queue))
  /\ ing' = EngineRun(ing)
  /\ UNCHANGED <<llmBuild, call, outcome, reply, extracted, stores>>

\* A failing CREATE TABLE / INSERT has no callback: sqlite3 emits 'error'
\* on the statement and nothing listens.  If the host keeps the process
\* alive the engine goes on with the next queued statement ...
StatementFailsIgnored ==
  /\ ing.pc = "running"
  /\ EngineFails(ing, Head(ing.queue))
  /\ ing' = [Dequeued(ing) EXCEPT !.stmtFailed = TRUE]
  /\ UNCHANGED <<llmBuild, call, outcome, reply, extracted, stores>>

\* ... otherwise the unhandled 'error' event ends the process: the promise
\* is never settled and the open transaction is lost with the handle.
StatementFailsCrash ==
  /\ ing.pc = "running"
  /\ EngineFails(ing, Head(ing.queue))
  /\ ing' = [ing EXCEPT !.pc = "crashed", !.stmtFailed = TRUE, !.queue = <<>>,
                        !.handle = "closed", !.txn = FALSE,
                        !.pendTable = FALSE, !.pendRows = 0]
  /\ UNCHANGED <<llmBuild, call, outcome, reply, extracted, stores>>

NextIngest ==
  \/ StartJsonToSqlite
  \/ StartCsvToSqlite
  \/ StatementRuns
  \/ StatementFailsIgnored
  \/ StatementFailsCrash

SpecIngest == InitIngest /\ [][NextIngest]_vars

\* C1: whenever a CREATE TABLE or INSERT of a run failed after BEGIN, the
\* run ends rolled back with its promise rejected and no row of the run in
\* the file, and COMMIT is issued only if every queued statement succeeded.
C1_IngestionAtomic ==
  /\ (ing.pc \in {"done", "crashed"} /\ ing.stmtFailed) =>
       (ing.promise = "rejected" /\ ing.rolledBack /\ ing.rows = 0)
  /\ ing.commitIssued => ~ing.stmtFailed

(***************************************************************************)
(* Replies handed to the extractor                                         *)
(***************************************************************************)
FreeReplies == UNION {[1..n -> Alphabet] : n \in 0..MaxReplyLen}

Block(title, body) == <<Fence>> \o title \o <<" ", "sql", "\n">> \o body \o <<Fence>>

BlockUpper(title, body) == <<Fence>> \o title \o <<" ", "SQL", "\n">> \o body \o <<Fence>>

SampleTitles == {<<"x">>, <<" ", "x", " ">>, <<"y">>, <<"x", " ", "y">>}

SampleBodies == {<<"x">>, <<"y", "\n">>, <<"\n", " ", "x", " ", "y", "\n">>, <<>>, <<"\n">>}

TwoBlockReplies ==
  {pre \o b1 \o mid \o b2 :
     pre \in {<<>>, <<"x", "\n">>},
     b1 \in {Block(t, b) : t \in SampleTitles, b \in SampleBodies}
            \cup {BlockUpper(<<"x">>, <<"x">>)},
     mid \in {<<>>, <<"\n", "x", "\n">>},
     b2 \in {Block(<<"y">>, <<"y">>), Block(<<"x">>, <<"x">>)}}

Replies == FreeReplies \cup TwoBlockReplies

(***************************************************************************)
(* SQL Extraction Protocol as a state machine                              *)
(***************************************************************************)
InitExtract ==
  /\ llmBuild \in LlmBuilds
  /\ call = NoCall
  /\ outcome = NotBuilt
  /\ reply \in Replies
  /\ extracted = NotRun
  /\ ing = IngIdle
  /\ StoresIdle

ApplyExtract ==
  /\ extracted = NotRun
  /\ extracted' = ExtractOf(llmBuild, reply)
  /\ UNCHANGED <<llmBuild, call, outcome, reply, ing, stores>>

NextExtract == ApplyExtract

SpecExtract == InitExtract /\ [][NextExtract]_vars

(***************************************************************************)
(* LLMService: Query Sandbox and Conversation Orchestrator                 *)
(***************************************************************************)
Statements == {"SELECT", "SELECT missing", "INSERT", "UPDATE", "DELETE", "DROP"}

Mutating == {"INSERT", "UPDATE", "DELETE", "DROP"}

OracleReplies == {<<"x">>, <<"x", "\n">> \o Block(<<"x", " ", "y">>, <<"x", "\n">>)}

\* mutant: the handle is opened read-write
OpenMode_readwrite == "OPEN_READWRITE"

\* new sqlite3.Database(dbPath, sqlite3.OPEN_READONLY, ...)
OpenMode == "OPEN_READONLY"

\* the engine running one statement on an opened file
SqliteAll(content, mode, query) ==
  IF query \in Mutating
    THEN IF mode = "OPEN_READONLY"
           THEN [err |-> <<"SQLITE_READONLY: attempt to write a readonly database">>,
                 rows |-> <<>>, content |-> content]
           ELSE [err |-> <<>>, rows |-> <<>>,
                 content |-> [content EXCEPT !.written = TRUE]]
  ELSE IF query = "SELECT missing"
    THEN [err |-> <<"SQLITE_ERROR: no such table">>, rows |-> <<>>, content |-> content]
  ELSE [err |-> <<>>, rows |-> <<content.src>>, content |-> content]

\* executeSqlQuery(dbPath, query): reject with a prefixed Error or resolve
\* with the rows
executeSqlQuery(files, dbPath, query) ==
  IF dbPath \notin DOMAIN files
    THEN [ok |-> FALSE, mode |-> OpenMode, opened |-> FALSE, files |-> files,
          rows |-> <<>>,
          thrown |-> Err(<<"Failed to open database: ", "SQLITE_CANTOPEN">>)]
    ELSE LET r == SqliteAll(files[dbPath], OpenMode, query)
         IN IF r.err # <<>>
              THEN [ok |-> FALSE, mode |-> OpenMode, opened |-> TRUE,
                    files |-> files, rows |-> <<>>,
                    thrown |-> Err(<<"Failed to execute query: ">> \o r.err)]
              ELSE [ok |-> TRUE, mode |-> OpenMode, opened |-> TRUE, rows |-> r.rows,
                    files |-> WriteFile(files, dbPath, r.content),
                    thrown |-> NotAnError]

\* path.join(TEMP_DIR, dataset.id + ".db")
ScratchPath(row) == <<TEMP_DIR, "/", row.id, ".db">>

\* mutant: the chat ownership check is dropped
ChatOwnerMismatch_off(chat, userId) == FALSE

\* processMessage: chat.user_id !== userId
ChatOwnerMismatch(chat, userId) == chat.user_id # userId

\* mutant: the dataset ownership check is dropped
DatasetOwnerMismatch_off(dataset, userId) == FALSE

\* executeQuery: dataset.user_id !== userId
DatasetOwnerMismatch(dataset, userId) == dataset.user_id # userId

Ev(op, event) == [op EXCEPT !.trace = Append(@, event)]

DatasetNotFound(id) == Err(<<"Dataset with ID ", id, " not found">>)

DatasetDenied == Err(<<"You do not have permission to access this dataset">>)

PermissionDenied ==
  [NoResult EXCEPT !.status = "resolved",
                   !.content = <<"You do not have permission to access this chat">>,
                   !.error = <<"Permission denied">>]

ChatNotFound(id) ==
  [NoResult EXCEPT !.status = "resolved",
                   !.content = <<"Chat with ID ", id, " not found">>,
                   !.error = <<"Chat not found">>]

KeyNotConfigured ==
  [NoResult EXCEPT !.status = "resolved",
                   !.content = <<"OpenAI API key is not configured.">>,
                   !.error = <<"OpenAI API key not configured">>]

\* the catch block of processMessage turns a thrown value into a result;
\* the catch block of executeQuery rethrows it
Thrown(op, e, step) ==
  IF op.kind = "processMessage"
    THEN [op EXCEPT
            !.pc = "returned", !.fault = step, !.failed = TRUE,
            !.result = [NoResult EXCEPT
               !.status = "resolved",
               !.content = IF e.isError THEN <<"An error occurred: ">> \o e.message
                                        ELSE <<"An unknown error occurred">>,
               !.error = IF e.isError THEN e.message ELSE <<"Unknown error">>]]
    ELSE [op EXCEPT
            !.pc = "returned", !.fault = step, !.failed = TRUE,
            !.result = [NoResult EXCEPT !.status = "rejected", !.thrown = e]]

Returned(op, result) == [op EXCEPT !.pc = "returned", !.result = result]

SetOp(s, op) == ops' = [ops EXCEPT ![s] = op]

\* processMessage(chatId, message, userId) up to its first await
ProcessMessage(s) ==
  /\ ops[s].pc = "idle"
  /\ \E chatId \in ChatIds, userId \in Users :
       LET op == [OpIdle EXCEPT !.kind = "processMessage", !.user = userId,
                                !.chatId = chatId, !.text = <<"question">>,
                                !.blobsBefore = blobs]
       IN SetOp(s, IF apiKey THEN [op EXCEPT !.pc = "pm_findChat"]
                             ELSE Returned(op, KeyNotConfigured))
  /\ UNCHANGED <<llmBuild, call, outcome, reply, extracted, ing, apiKey, datasets, chats, uuids,
                 messages, blobs, tempFiles>>

\* Chat.findById and the ownership check
PmFindChat(s) ==
  /\ ops[s].pc = "pm_findChat"
  /\ LET op == Ev(ops[s], "findChat")
         chat == chats[op.chatId]
     IN \/ \E e \in Faults : SetOp(s, Thrown(op, e, "findChat"))
        \/ SetOp(s, IF chat = NoRow THEN Returned(op, ChatNotFound(op.chatId))
                    ELSE IF ChatOwnerMismatch(chat, op.user)
                      THEN Returned(op, PermissionDenied)
                    ELSE [op EXCEPT !.pc = "dl_findDataset",
                                    !.datasetId = chat.dataset_id])
  /\ UNCHANGED <<llmBuild, call, outcome, reply, extracted, ing, apiKey, datasets, chats, uuids,
                 messages, blobs, tempFiles>>

\* executeQuery(datasetId, sqlQuery, userId) up to its first await
ExecuteQuery(s) ==
  /\ ops[s].pc = "idle"
  /\ \E datasetId \in DatasetIds, userId \in Users, query \in Statements :
       SetOp(s, [OpIdle EXCEPT !.kind = "executeQuery", !.pc = "eq_findDataset",
                               !.user = userId, !.datasetId = datasetId,
                               !.text = <<query>>, !.blobsBefore = blobs])
  /\ UNCHANGED <<llmBuild, call, outcome, reply, extracted, ing, apiKey, datasets, chats, uuids,
                 messages, blobs, tempFiles>>

\* Dataset.findById and the ownership check of executeQuery
EqFindDataset(s) ==
  /\ ops[s].pc = "eq_findDataset"
  /\ LET op == Ev(ops[s], "checkDataset")
         dataset == datasets[op.datasetId]
     IN \/ \E e \in Faults : SetOp(s, Thrown(op, e, "checkDataset"))
        \/ SetOp(s, IF dataset = NoRow
                      THEN Thrown(op, DatasetNotFound(op.datasetId), "none")
                    ELSE IF DatasetOwnerMismatch(dataset, op.user)
                      THEN Thrown(op, DatasetDenied, "none")
                    ELSE [op EXCEPT !.pc = "dl_findDataset"])
  /\ UNCHANGED <<llmBuild, call, outcome, reply, extracted, ing, apiKey, datasets, chats, uuids,
                 messages, blobs, tempFiles>>

\* downloadDataset: Dataset.findById
DlFindDataset(s) ==
  /\ ops[s].pc = "dl_findDataset"
  /\ LET op == Ev(ops[s], "findDataset")
         dataset == datasets[op.datasetId]
     IN \/ \E e \in Faults : SetOp(s, Thrown(op, e, "findDataset"))
        \/ SetOp(s, IF dataset = NoRow
                      THEN Thrown(op, DatasetNotFound(op.datasetId), "none")
                      ELSE [op EXCEPT !.pc = "dl_fetch", !.row = dataset])
  /\ UNCHANGED <<llmBuild, call, outcome, reply, extracted, ing, apiKey, datasets, chats, uuids,
                 messages, blobs, tempFiles>>

\* downloadDataset: generatePresignedUrl, fetch, arrayBuffer, writeFileSync
DlFetch(s) ==
  /\ ops[s].pc = "dl_fetch"
  /\ LET op == Ev(ops[s], "presign")
         key == op.row.file_key
         path == ScratchPath(op.row)
     IN \/ /\ \E e \in Faults :
                SetOp(s, Thrown(op,
                   IF e.isError
                     THEN Err(<<"Failed to generate URL: ">> \o e.message)
                     ELSE Err(<<"Failed to generate presigned URL for dataset ",
                                op.datasetId>>),
                   "presign"))
           /\ UNCHANGED tempFiles
        \/ /\ \E e \in Faults : SetOp(s, Thrown(Ev(op, "fetch"), e, "fetch"))
           /\ UNCHANGED tempFiles
        \/ /\ key \notin DOMAIN blobs
           /\ SetOp(s, Thrown(Ev(op, "fetch"),
                              Err(<<"Failed to download dataset: ", "Not Found">>),
                              "none"))
           /\ UNCHANGED tempFiles
        \/ /\ key \in DOMAIN blobs
           /\ tempFiles' = WriteFile(tempFiles, path, blobs[key])
           /\ SetOp(s, [Ev(Ev(op, "fetch"), "write") EXCEPT
                          !.dbPath = path,
                          !.pc = IF op.kind = "processMessage" THEN "pm_schema"
                                                               ELSE "eq_exec"])
  /\ UNCHANGED <<llmBuild, call, outcome, reply, extracted, ing, apiKey, datasets, chats, uuids,
                 messages, blobs>>

\* executeQuery: await executeSqlQuery(dbPath, sqlQuery)
EqExec(s) ==
  /\ ops[s].pc = "eq_exec"
  /\ LET op == Ev(ops[s], "exec")
         r == executeSqlQuery(tempFiles, op.dbPath, op.text[1])
     IN /\ tempFiles' = r.files
        /\ SetOp(s, IF r.ok
                      THEN [op EXCEPT !.pc = "eq_finish", !.mode = r.mode,
                                      !.opened = r.opened,
                                      !.result = [NoResult EXCEPT !.rows = r.rows]]
                      ELSE [Thrown(op, r.thrown, "none") EXCEPT
                              !.mode = r.mode, !.opened = r.opened])
  /\ UNCHANGED <<llmBuild, call, outcome, reply, extracted, ing, apiKey, datasets, chats, uuids,
                 messages, blobs>>

\* try { fs.unlinkSync(dbPath) } catch { console.error(...) }
UnlinkSwallowed(files, path) ==
  IF path \in DOMAIN files THEN RemoveFile(files, path) ELSE files

\* executeQuery: clean up the temporary file and return the result
EqFinish(s) ==
  /\ ops[s].pc = "eq_finish"
  /\ tempFiles' = UnlinkSwallowed(tempFiles, ops[s].dbPath)
  /\ SetOp(s, Returned(Ev(ops[s], "unlink"),
                       [ops[s].result EXCEPT !.status = "resolved"]))
  /\ UNCHANGED <<llmBuild, call, outcome, reply, extracted, ing, apiKey, datasets, chats, uuids,
                 messages, blobs>>

\* processMessage: await getDatabaseSchema(dbPath)
PmSchema(s) ==
  /\ ops[s].pc = "pm_schema"
  /\ LET op == Ev(ops[s], "schema")
     IN \/ /\ op.dbPath \notin DOMAIN tempFiles
           /\ SetOp(s, Thrown(op, Err(<<"Failed to open database: ", "SQLITE_CANTOPEN">>),
                              "none"))
        \/ /\ op.dbPath \in DOMAIN tempFiles
           /\ \/ SetOp(s, Thrown(op, Err(<<"Failed to get tables: ", "SQLITE_NOTADB">>),
                                 "schema"))
              \/ SetOp(s, [op EXCEPT !.pc = "pm_history",
                                     !.schema = <<tempFiles[op.dbPath].src>>])
  /\ UNCHANGED <<llmBuild, call, outcome, reply, extracted, ing, apiKey, datasets, chats, uuids,
                 messages, blobs, tempFiles>>

\* processMessage: await Chat.getMessages(chatId), keep role and content
PmHistory(s) ==
  /\ ops[s].pc = "pm_history"
  /\ LET op == Ev(ops[s], "history")
         rows == messages[op.chatId]
     IN \/ \E e \in Faults : SetOp(s, Thrown(op, e, "history"))
        \/ SetOp(s, [op EXCEPT
                       !.pc = "pm_addUser",
                       !.history = [n \in 1..Len(rows) |->
                                      [role |-> rows[n].role,
                                       content |-> rows[n].content]]])
  /\ UNCHANGED <<llmBuild, call, outcome, reply, extracted, ing, apiKey, datasets, chats, uuids,
                 messages, blobs, tempFiles>>

\* mutant: the INSERT into chat_messages is dropped
addMessage_dropped(rows, chatId, content, role, title, sqlQuery) == rows

\* Chat.addMessage: one row appended to chat_messages
addMessage(rows, chatId, content, role, title, sqlQuery) ==
  [rows EXCEPT ![chatId] =
     Append(@, [role |-> role, content |-> content, title |-> title,
                sql_query |-> sqlQuery])]

\* processMessage: await Chat.addMessage(chatId, message, 'user')
PmAddUser(s) ==
  /\ ops[s].pc = "pm_addUser"
  /\ LET op == Ev(ops[s], "addUser")
     IN \/ /\ \E e \in Faults : SetOp(s, Thrown(op, e, "addUser"))
           /\ UNCHANGED messages
        \/ /\ messages' = addMessage(messages, op.chatId, op.text, "user",
                                     Undefined, Undefined)
           /\ \/ SetOp(s, [op EXCEPT !.pc = "pm_oracle"])
              \* the INSERT went through, the UPDATE of chats.updated_at threw
              \/ \E e \in Faults : SetOp(s, Thrown(op, e, "addUser"))
  /\ UNCHANGED <<llmBuild, call, outcome, reply, extracted, ing, apiKey, datasets, chats, uuids,
                 blobs, tempFiles>>

\* processMessage: await chain.invoke({})
PmOracle(s) ==
  /\ ops[s].pc = "pm_oracle"
  /\ LET op == Ev(ops[s], "oracle")
     IN \/ \E e \in Faults : SetOp(s, Thrown(op, e, "oracle"))
        \/ \E r \in OracleReplies :
             SetOp(s, [op EXCEPT !.pc = "pm_addAssistant", !.reply = r])
  /\ UNCHANGED <<llmBuild, call, outcome, reply, extracted, ing, apiKey, datasets, chats, uuids,
                 messages, blobs, tempFiles>>

TypeErrorNotIterable == Err(<<"undefined is not iterable">>)

\* processMessage: extractSqlQueryAndTile(result), then
\* await Chat.addMessage(chatId, result, 'assistant', title, sqlQuery)
PmAddAssistant(s) ==
  /\ ops[s].pc = "pm_addAssistant"
  /\ LET op == Ev(ops[s], "extract")
         x == ExtractOf(llmBuild, op.reply)
         withSql == [op EXCEPT !.result = [NoResult EXCEPT !.title = x.title,
                                                           !.sqlQuery = x.sqlQuery]]
     IN IF x.threw
          THEN /\ SetOp(s, Thrown(op, TypeErrorNotIterable, "none"))
               /\ UNCHANGED messages
          ELSE \/ /\ \E e \in Faults :
                       SetOp(s, Thrown(Ev(op, "addAssistant"), e, "addAssistant"))
                  /\ UNCHANGED messages
               \/ /\ messages' = addMessage(messages, op.chatId, op.reply,
                                            "assistant", x.title, x.sqlQuery)
                  /\ \/ SetOp(s, [Ev(withSql, "addAssistant") EXCEPT
                                    !.pc = "pm_finish"])
                     \/ \E e \in Faults :
                          SetOp(s, Thrown(Ev(op, "addAssistant"), e, "addAssistant"))
  /\ UNCHANGED <<llmBuild, call, outcome, reply, extracted, ing, apiKey, datasets, chats, uuids,
                 blobs, tempFiles>>

\* processMessage: clean up the temporary file and return the reply
PmFinish(s) ==
  /\ ops[s].pc = "pm_finish"
  /\ tempFiles' = UnlinkSwallowed(tempFiles, ops[s].dbPath)
  /\ SetOp(s, Returned(Ev(ops[s], "unlink"),
                       [ops[s].result EXCEPT !.status = "resolved",
                                             !.content = ops[s].reply]))
  /\ UNCHANGED <<llmBuild, call, outcome, reply, extracted, ing, apiKey, datasets, chats, uuids,
                 messages, blobs>>

InitQuery ==
  /\ llmBuild \in LlmBuilds
  /\ call = NoCall
  /\ outcome = NotBuilt
  /\ reply = <<>>
  /\ extracted = NotRun
  /\ ing = IngIdle
  /\ apiKey \in BOOLEAN
  /\ datasets = InitialDatasets
  /\ chats = InitialChats
  /\ messages = [c \in ChatIds |-> <<>>]
  /\ blobs = InitialBlobs
  /\ tempFiles = NoFiles
  /\ uuids = 0
  /\ ops = [s \in Slots |-> OpIdle]

NextQuery ==
  \/ \E s \in Slots : ProcessMessage(s)
  \/ \E s \in Slots : PmFindChat(s)
  \/ \E s \in Slots : ExecuteQuery(s)
  \/ \E s \in Slots : EqFindDataset(s)
  \/ \E s \in Slots : DlFindDataset(s)
  \/ \E s \in Slots : DlFetch(s)
  \/ \E s \in Slots : EqExec(s)
  \/ \E s \in Slots : EqFinish(s)
  \/ \E s \in Slots : PmSchema(s)
  \/ \E s \in Slots : PmHistory(s)
  \/ \E s \in Slots : PmAddUser(s)
  \/ \E s \in Slots : PmOracle(s)
  \/ \E s \in Slots : PmAddAssistant(s)
  \/ \E s \in Slots : PmFinish(s)

Spec == InitQuery /\ [][NextQuery]_vars

(***************************************************************************)
(* SqliteService: Dataset Materializer (processJsonFile, processCsvFile)   *)
(* and S3Service.uploadPrivateDataset                                      *)
(***************************************************************************)
MatKinds == {"processJsonFile", "processCsvFile"}

\* uuidv4(): the n-th id handed out
Uuid(n) == ToString(n)

\* the engine works through the queue of a run until it is empty or the
\* process has died
RECURSIVE EngineDrain(_, _)
EngineDrain(g, survive) ==
  IF g.pc # "running" THEN g
  ELSE IF EngineFails(g, Head(g.queue))
    THEN IF survive
           THEN EngineDrain([Dequeued(g) EXCEPT !.stmtFailed = TRUE], survive)
           ELSE [g EXCEPT !.pc = "crashed", !.stmtFailed = TRUE, !.queue = <<>>,
                          !.handle = "closed", !.txn = FALSE,
                          !.pendTable = FALSE, !.pendRows = 0]
  ELSE EngineDrain(EngineRun(g), survive)

\* the catch block of processJsonFile / processCsvFile
MatCaught(op, e) ==
  [op EXCEPT
     !.pc = "returned", !.failed = TRUE,
     !.result = [NoResult EXCEPT
        !.status = "resolved",
        !.error = IF e.isError
                    THEN <<"Failed to process file: ">> \o e.message
                    ELSE <<"Failed to process file: Unknown error">>]]

ENOENT == Err(<<"ENOENT: no such file or directory">>)

\* file.name of the upload: only the mimetype is checked, so the name may
\* carry any extension or none
FileNames == {<<"a", ".json">>, <<"a", ".db">>, <<"a">>}

\* path.parse(file.name).name: the name without its extension
ParsedName(name) ==
  IF Len(name) > 1 THEN SubSeq(name, 1, Len(name) - 1) ELSE name

\* processJsonFile / processCsvFile up to the end of
\* await fs.promises.writeFile(sourcePath, file.data)
ProcessFile(s) ==
  /\ ops[s].pc = "idle"
  /\ uuids' = uuids + 1
  /\ \E fn \in MatKinds, userId \in Users, name \in FileNames :
       LET uniqueId == Uuid(uuids + 1)
           op == [OpIdle EXCEPT
                    !.kind = fn, !.user = userId, !.text = name,
                    !.srcPath = <<TEMP_DIR, "/", uniqueId, "_">> \o name,
                    !.dbPath = <<TEMP_DIR, "/", uniqueId, "_">> \o ParsedName(name)
                                 \o <<".db">>,
                    !.blobsBefore = blobs]
       IN \/ /\ \E e \in Faults : SetOp(s, MatCaught(Ev(op, "writeSource"), e))
             /\ UNCHANGED tempFiles
          \/ /\ tempFiles' = WriteFile(tempFiles, op.srcPath, DbContent("upload"))
             /\ SetOp(s, [Ev(op, "writeSource") EXCEPT !.pc = "mt_ingest"])
  /\ UNCHANGED <<llmBuild, call, outcome, reply, extracted, ing, apiKey, datasets, chats,
                 messages, blobs>>

\* what the finished run of the pipeline means for processJsonFile /
\* processCsvFile: the scratch .db exists once the handle was opened; the
\* await returns, throws, or the process is gone
AfterPipeline(s, op, g) ==
  IF g.handle # "none" /\ op.dbPath \in DOMAIN tempFiles
    THEN \* the handle is opened on a file that is no database: every
         \* statement fails, the first one without a callback
         /\ UNCHANGED tempFiles
         /\ \/ SetOp(s, [op EXCEPT !.pc = "crashed", !.failed = TRUE])
            \/ SetOp(s, MatCaught(op, Err(<<"SQLITE_NOTADB">>)))
    ELSE
      /\ tempFiles' = IF g.handle = "none" THEN tempFiles
                      ELSE WriteFile(tempFiles, op.dbPath, DbContent(op.dbPath[3]))
      /\ SetOp(s, CASE g.pc = "crashed" -> [op EXCEPT !.pc = "crashed", !.failed = TRUE]
                    [] g.promise = "rejected" -> MatCaught(op, Err(<<"SQLITE_ERROR">>))
                    [] OTHER -> [op EXCEPT !.pc = "mt_read"])

\* processJsonFile: JSON.parse(fs.readFileSync(jsonFilePath)) and
\* await this.jsonToSqlite(jsonData, dbFilePath, options)
MtIngestJson(s) ==
  /\ ops[s].pc = "mt_ingest"
  /\ ops[s].kind = "processJsonFile"
  /\ LET op == Ev(ops[s], "ingest")
     IN \/ /\ op.srcPath \notin DOMAIN tempFiles
           /\ SetOp(s, MatCaught(op, ENOENT))
           /\ UNCHANGED tempFiles
        \/ /\ op.srcPath \in DOMAIN tempFiles
           /\ \/ /\ SetOp(s, MatCaught(op, Err(<<"Unexpected token in JSON">>)))
                 /\ UNCHANGED tempFiles
              \/ \E items \in Batches(ItemKinds), createBad \in BOOLEAN,
                    survive \in BOOLEAN :
                   AfterPipeline(s, op, EngineDrain(jsonToSqlite(items, createBad),
                                                    survive))
  /\ UNCHANGED <<llmBuild, call, outcome, reply, extracted, ing, apiKey, datasets, chats, uuids,
                 messages, blobs>>

\* processCsvFile: await this.csvToSqlite(csvFilePath, dbFilePath, options)
MtIngestCsv(s) ==
  /\ ops[s].pc = "mt_ingest"
  /\ ops[s].kind = "processCsvFile"
  /\ LET op == Ev(ops[s], "ingest")
     IN \E rows \in Batches({"ok", "bad"}), createBad \in BOOLEAN,
           readFails \in BOOLEAN, badOptions \in BOOLEAN, survive \in BOOLEAN :
          /\ op.srcPath \notin DOMAIN tempFiles => readFails
          /\ AfterPipeline(s, op,
               EngineDrain(csvToSqlite(rows, createBad, readFails, badOptions),
                           survive))
  /\ UNCHANGED <<llmBuild, call, outcome, reply, extracted, ing, apiKey, datasets, chats, uuids,
                 messages, blobs>>

\* await fs.promises.readFile(dbFilePath)
MtRead(s) ==
  /\ ops[s].pc = "mt_read"
  /\ LET op == Ev(ops[s], "readDb")
     IN \/ /\ op.dbPath \notin DOMAIN tempFiles
           /\ SetOp(s, MatCaught(op, ENOENT))
        \/ /\ op.dbPath \in DOMAIN tempFiles
           /\ \/ \E e \in Faults : SetOp(s, MatCaught(op, e))
              \/ SetOp(s, [op EXCEPT !.pc = "mt_upload"])
  /\ UNCHANGED <<llmBuild, call, outcome, reply, extracted, ing, apiKey, datasets, chats, uuids,
                 messages, blobs, tempFiles>>

\* S3Service.uploadPrivateDataset(file, userId): a fresh key, one put; an
\* Error is rethrown with a prefix, any other thrown value yields no result
uploadPrivateDataset(store, name, data, userId, uniqueId, fault) ==
  LET key == KeyOf(userId, uniqueId, name)
  IN IF fault = NoFault
       THEN [blobs |-> [k \in DOMAIN store \cup {key} |->
                          IF k = key THEN data ELSE store[k]],
             threw |-> FALSE, thrown |-> NotAnError, key |-> key]
     ELSE IF fault.isError
       THEN [blobs |-> store, threw |-> TRUE,
             thrown |-> Err(<<"Failed to upload dataset: ">> \o fault.message),
             key |-> Undefined]
     ELSE [blobs |-> store, threw |-> FALSE, thrown |-> NotAnError,
           key |-> Undefined]

\* await S3Service.uploadPrivateDataset(sqliteFile, userId)
MtUpload(s) ==
  /\ ops[s].pc = "mt_upload"
  /\ uuids' = uuids + 1
  /\ \E fault \in Faults \cup {NoFault} :
       LET op == Ev(ops[s], "upload")
           name == SubSeq(op.dbPath, 3, Len(op.dbPath))
           r == uploadPrivateDataset(blobs, name, DbContent(op.dbPath[3]),
                                     op.user, Uuid(uuids + 1), fault)
       IN /\ blobs' = r.blobs
          /\ SetOp(s, IF r.threw THEN MatCaught(op, r.thrown)
                      ELSE [op EXCEPT !.pc = "mt_cleanup", !.upload = r.key])
  /\ UNCHANGED <<llmBuild, call, outcome, reply, extracted, ing, apiKey, datasets, chats,
                 messages, tempFiles>>

\* fs.unlinkSync(sourcePath); fs.unlinkSync(dbFilePath); then the result
MtCleanup(s) ==
  /\ ops[s].pc = "mt_cleanup"
  /\ LET op == Ev(ops[s], "unlink")
     IN IF op.srcPath \notin DOMAIN tempFiles
          THEN /\ SetOp(s, MatCaught(op, ENOENT))
               /\ UNCHANGED tempFiles
        ELSE IF op.dbPath \notin DOMAIN tempFiles
          THEN /\ SetOp(s, MatCaught(op, ENOENT))
               /\ tempFiles' = RemoveFile(tempFiles, op.srcPath)
        ELSE /\ tempFiles' = RemoveFile(RemoveFile(tempFiles, op.srcPath), op.dbPath)
             /\ SetOp(s, Returned(op,
                  IF op.upload = Undefined
                    THEN [NoResult EXCEPT
                            !.status = "resolved",
                            !.error = <<"Failed to upload SQLite file: ",
                                        "No key returned from S3 service">>]
                    ELSE [NoResult EXCEPT
                            !.status = "resolved", !.key = op.upload,
                            !.content = <<"successfully converted to SQLite and uploaded">>]))
  /\ UNCHANGED <<llmBuild, call, outcome, reply, extracted, ing, apiKey, datasets, chats, uuids,
                 messages, blobs>>

(***************************************************************************)
(* SqliteService.uploadSqliteFile: a payload is a sequence of byte runs,   *)
(* "SQLite format" the 13 bytes of the signature, " 3" the 3 bytes that    *)
(* follow it in a database header, "pad16" sixteen other bytes, "x" one.   *)
(***************************************************************************)
Signature == "SQLite format"

\* number of bytes a run stands for
Width(run) ==
  CASE run = Signature -> 13
    [] run = " 3" -> 3
    [] run = "pad16" -> 16
    [] OTHER -> 1

Payloads ==
  {<<>>, <<"x">>, <<Signature, " 3", "x">>, <<"x", Signature, "x">>,
   <<"x", "x", "x", "x", Signature>>, <<"pad16", Signature, " 3">>}

\* Buffer.slice(0, n): the runs that lie within the first n bytes; a run
\* that is cut is no longer that run
RECURSIVE Slice(_, _)
Slice(data, n) ==
  IF data = <<>> \/ n <= 0 THEN <<>>
  ELSE IF Width(Head(data)) <= n
    THEN <<Head(data)>> \o Slice(Tail(data), n - Width(Head(data)))
  ELSE <<"cut">>

\* mutant: the whole payload is searched for the signature
HeaderOf_whole(data) == data

\* file.data.slice(0, 16).toString()
HeaderOf(data) == Slice(data, 16)

\* header.includes('SQLite format')
Includes(header, run) == \E i \in 1..Len(header) : header[i] = run

InvalidSqlite ==
  [NoResult EXCEPT !.status = "resolved",
                   !.error = <<"Invalid SQLite file format">>]

\* the catch block of uploadSqliteFile
UsCaught(op, e) ==
  [op EXCEPT
     !.pc = "returned", !.failed = TRUE,
     !.result = [NoResult EXCEPT
        !.status = "resolved",
        !.error = IF e.isError
                    THEN <<"Failed to upload SQLite file: ">> \o e.message
                    ELSE <<"Failed to upload SQLite file: Unknown error">>]]

\* uploadSqliteFile(file, userId) up to its await: the header check
UploadSqliteFile(s) ==
  /\ ops[s].pc = "idle"
  /\ \E userId \in Users, data \in Payloads :
       LET op == Ev([OpIdle EXCEPT !.kind = "uploadSqliteFile", !.user = userId,
                                   !.text = data, !.blobsBefore = blobs],
                    "header")
       IN SetOp(s, IF Includes(HeaderOf(data), Signature)
                     THEN [op EXCEPT !.pc = "us_upload"]
                     ELSE [Returned(op, InvalidSqlite) EXCEPT !.failed = TRUE])
  /\ UNCHANGED <<llmBuild, call, outcome, reply, extracted, ing, apiKey, datasets, chats, uuids,
                 messages, blobs, tempFiles>>

\* uploadSqliteFile: await S3Service.uploadPrivateDataset(file, userId)
UsUpload(s) ==
  /\ ops[s].pc = "us_upload"
  /\ uuids' = uuids + 1
  /\ \E fault \in Faults \cup {NoFault} :
       LET op == Ev(ops[s], "upload")
           r == uploadPrivateDataset(blobs, <<"a", ".db">>, DbContent(op.text),
                                     op.user, Uuid(uuids + 1), fault)
       IN /\ blobs' = r.blobs
          /\ SetOp(s, IF r.threw THEN UsCaught(op, r.thrown)
                      ELSE IF r.key = Undefined
                        THEN [Returned(op, [NoResult EXCEPT
                                 !.status = "resolved",
                                 !.error = <<"Failed to upload SQLite file: ",
                                             "No key returned from S3 service">>])
                              EXCEPT !.failed = TRUE]
                      ELSE Returned([op EXCEPT !.upload = r.key],
                             [NoResult EXCEPT
                                !.status = "resolved", !.key = r.key,
                                !.content = <<"SQLite file successfully uploaded">>]))
  /\ UNCHANGED <<llmBuild, call, outcome, reply, extracted, ing, apiKey, datasets, chats,
                 messages, tempFiles>>

\* clearTempFiles: every regular file of the scratch directory is unlinked
ClearTempFiles ==
  /\ tempFiles # NoFiles
  /\ tempFiles' = NoFiles
  /\ UNCHANGED <<llmBuild, call, outcome, reply, extracted, ing, apiKey, datasets, chats, uuids,
                 messages, blobs, ops>>

InitMat ==
  /\ llmBuild = "index.ts"
  /\ call = NoCall
  /\ outcome = NotBuilt
  /\ reply = <<>>
  /\ extracted = NotRun
  /\ ing = IngIdle
  /\ StoresIdle

NextMat ==
  \/ \E s \in Slots : ProcessFile(s)
  \/ \E s \in Slots : MtIngestJson(s)
  \/ \E s \in Slots : MtIngestCsv(s)
  \/ \E s \in Slots : MtRead(s)
  \/ \E s \in Slots : MtUpload(s)
  \/ \E s \in Slots : MtCleanup(s)
  \/ \E s \in Slots : UploadSqliteFile(s)
  \/ \E s \in Slots : UsUpload(s)
  \/ ClearTempFiles

SpecMat == InitMat /\ [][NextMat]_vars

\* C4: when processJsonFile or processCsvFile has returned, neither its
\* scratch source file nor its scratch .db file exists any more.
C4_MaterializerCleansUp ==
  \A s \in Slots :
    (ops[s].kind \in MatKinds /\ ops[s].pc = "returned")
      => /\ ops[s].srcPath \notin DOMAIN tempFiles
         /\ ops[s].dbPath \notin DOMAIN tempFiles

(***************************************************************************)
(* Reading of a reply independent of the scanning order: a block opens at  *)
(* i with a fence, a non-empty one-line title, " sql" and a newline at j,  *)
(* and closes at the first fence k after j.                                *)
(***************************************************************************)
WellFormedBlock(r, i, j, k) ==
  /\ r[i] = Fence
  /\ j >= i + 4
  /\ r[j] = "\n"
  /\ r[j - 1] \in SqlTag
  /\ r[j - 2] = " "
  /\ \A m \in (i + 1)..(j - 3) : r[m] # "\n"
  /\ k > j
  /\ r[k] = Fence
  /\ \A m \in (j + 1)..(k - 1) : r[m] # Fence

BlockOpensAt(r, i) ==
  \E j \in (i + 4)..Len(r) : \E k \in (j + 1)..Len(r) : WellFormedBlock(r, i, j, k)

HasBlock(r) == \E i \in 1..Len(r) : BlockOpensAt(r, i)

IsFirstBlock(r, i, j, k) ==
  /\ WellFormedBlock(r, i, j, k)
  /\ \A i2 \in 1..(i - 1) : ~BlockOpensAt(r, i2)

\* t is s without its leading and trailing white space
IsTrimOf(t, s) ==
  /\ t = <<>> \/ (t[1] \notin WhiteSpace /\ t[Len(t)] \notin WhiteSpace)
  /\ \E a \in 0..Len(s) : \E b \in 0..(Len(s) - a) :
       /\ t = SubSeq(s, a + 1, Len(s) - b)
       /\ \A m \in 1..a : s[m] \in WhiteSpace
       /\ \A m \in (Len(s) - b + 1)..Len(s) : s[m] \in WhiteSpace

\* C7 (as stated): for every reply containing a block opened by a fence
\* "<title> sql" + newline, the extractor returns the trimmed title and the
\* trimmed body of the first such block.
C7_FirstBlockAlways ==
  (extracted # NotRun /\ HasBlock(reply)) =>
    \E i \in 1..Len(reply) : \E j \in (i + 4)..Len(reply) : \E k \in (j + 1)..Len(reply) :
      /\ IsFirstBlock(reply, i, j, k)
      /\ ~extracted.threw
      /\ IsTrimOf(extracted.title, SubSeq(reply, i + 1, j - 3))
      /\ IsTrimOf(extracted.sqlQuery, SubSeq(reply, j + 1, k - 1))

\* C7 (amended): for every reply containing such a block, the extractor does
\* not throw and looks at the first block only: if that block's body is not
\* empty it returns the trimmed title and trimmed body of that block, and the
\* same result as for the reply cut after that block; if the body is empty
\* it returns title and sqlQuery both absent.
C7_FirstNonEmptyBlock ==
  (extracted # NotRun /\ HasBlock(reply)) =>
    \E i \in 1..Len(reply) : \E j \in (i + 4)..Len(reply) : \E k \in (j + 1)..Len(reply) :
      /\ IsFirstBlock(reply, i, j, k)
      /\ ~extracted.threw
      /\ extracted = ExtractOf(llmBuild, SubSeq(reply, 1, k))
      /\ IF k > j + 1
           THEN /\ IsTrimOf(extracted.title, SubSeq(reply, i + 1, j - 3))
                /\ IsTrimOf(extracted.sqlQuery, SubSeq(reply, j + 1, k - 1))
           ELSE /\ extracted.title = Undefined
                /\ extracted.sqlQuery = Undefined

\* a reply with two blocks, white space to trim in the first, was extracted
C7_Witness ==
  /\ extracted # NotRun
  /\ reply = Block(<<" ", "x", " ">>, <<"\n", " ", "x", " ", "y", "\n">>)
               \o Block(<<"y">>, <<"y">>)
  /\ extracted.title = <<"x">>
  /\ extracted.sqlQuery = <<"x", " ", "y">>

(***************************************************************************)
(* Properties of the Query Sandbox and the Conversation Orchestrator       *)
(***************************************************************************)
IsPm(op) == op.kind = "processMessage"

IsEq(op) == op.kind = "executeQuery"

\* C2: the scratch path returned by downloadDataset is used by exactly one
\* operation: no two operations in flight hold the same scratch path.
C2_PrivateScratchCopy ==
  \A a \in Slots : \A b \in Slots \ {a} :
    (/\ InFlight(ops[a]) /\ ops[a].dbPath # NoPath
     /\ InFlight(ops[b]) /\ ops[b].dbPath # NoPath)
      => ops[a].dbPath # ops[b].dbPath

\* C3: when processMessage or executeQuery has returned or thrown, the
\* scratch file that its downloadDataset wrote no longer exists.
C3_ScratchRemovedOnEveryPath ==
  \A s \in Slots :
    (ops[s].pc = "returned" /\ Did(ops[s], "write"))
      => ops[s].dbPath \notin DOMAIN tempFiles

\* C5: executeQuery opens the database read-only; a mutating statement never
\* yields a result, and run against the opened file it ends in a thrown
\* 'Failed to execute query' error; no blob and no scratch copy is changed.
C5_SandboxNeverMutates ==
  \A s \in Slots :
    (IsEq(ops[s]) /\ ops[s].text[1] \in Mutating) =>
      /\ ops[s].pc # "eq_finish"
      /\ ops[s].pc = "returned" => ops[s].result.status = "rejected"
      /\ Did(ops[s], "exec") => ops[s].mode = "OPEN_READONLY"
      /\ (Did(ops[s], "exec") /\ ops[s].opened) =>
           /\ Len(ops[s].result.thrown.message) > 0
           /\ ops[s].result.thrown.message[1] = "Failed to execute query: "
      /\ blobs = ops[s].blobsBefore
      /\ \A p \in DOMAIN tempFiles : ~tempFiles[p].written

\* a mutating statement reached the engine and was refused
C5_Witness ==
  \E s \in Slots :
    /\ IsEq(ops[s]) /\ ops[s].text[1] = "DROP"
    /\ ops[s].pc = "returned" /\ ops[s].opened
    /\ ops[s].result.thrown.message[1] = "Failed to execute query: "

\* C6: a reply without a fenced sql block is not an error: the extractor
\* yields title and sqlQuery absent, the assistant message is persisted and
\* processMessage returns the reply verbatim with no error field.
C6_NoBlockIsNotAnError ==
  \A s \in Slots :
    (/\ IsPm(ops[s]) /\ ops[s].pc = "returned" /\ Did(ops[s], "extract")
     /\ ~HasBlock(ops[s].reply) /\ ops[s].fault = "none")
      => /\ Did(ops[s], "addAssistant")
         /\ ops[s].result.content = ops[s].reply
         /\ ops[s].result.error = Undefined
         /\ ops[s].result.title = Undefined
         /\ ops[s].result.sqlQuery = Undefined

EventsAfterOwnershipCheck ==
  {"findDataset", "presign", "fetch", "write", "schema", "history", "addUser",
   "oracle", "extract", "addAssistant", "exec", "unlink"}

DidNothingAfterCheck(op) ==
  /\ \A ev \in EventsAfterOwnershipCheck : ~Did(op, ev)
  /\ op.dbPath = NoPath

\* C8: processMessage called by a user who does not own the chat returns the
\* 'Permission denied' result without throwing, and in that run downloads
\* nothing, reads no schema, persists no message and never calls the oracle.
C8_FailsClosedOnChatOwner ==
  \A s \in Slots :
    (/\ IsPm(ops[s]) /\ chats[ops[s].chatId] # NoRow
     /\ chats[ops[s].chatId].user_id # ops[s].user)
      => /\ DidNothingAfterCheck(ops[s])
         /\ ops[s].pc = "returned" => ops[s].result.status = "resolved"
         /\ (ops[s].pc = "returned" /\ apiKey /\ ops[s].fault = "none")
              => ops[s].result = PermissionDenied

\* another user's chat was asked about and the request was turned down
C8_Witness ==
  \E s \in Slots :
    /\ IsPm(ops[s]) /\ ops[s].chatId = "c1" /\ ops[s].user = "u2"
    /\ ops[s].pc = "returned" /\ ops[s].result = PermissionDenied

\* C9: executeQuery on a dataset that does not exist or belongs to someone
\* else throws, with distinct messages for the two cases, and in that run
\* requests no download reference, writes no scratch file and executes no
\* statement.
C9_OwnershipBeforeData ==
  \A s \in Slots :
    (/\ IsEq(ops[s])
     /\ \/ datasets[ops[s].datasetId] = NoRow
        \/ datasets[ops[s].datasetId].user_id # ops[s].user)
      => /\ DidNothingAfterCheck(ops[s])
         /\ ops[s].pc = "returned" => ops[s].result.status = "rejected"
         /\ (ops[s].pc = "returned" /\ ops[s].fault = "none") =>
              ops[s].result.thrown =
                IF datasets[ops[s].datasetId] = NoRow
                  THEN DatasetNotFound(ops[s].datasetId)
                  ELSE DatasetDenied
         /\ DatasetNotFound(ops[s].datasetId).message # DatasetDenied.message

\* a query on another user's dataset was refused
C9_Witness ==
  \E s \in Slots :
    /\ IsEq(ops[s]) /\ ops[s].datasetId = "d1" /\ ops[s].user = "u2"
    /\ ops[s].pc = "returned" /\ ops[s].result.thrown = DatasetDenied

\* C10: whatever step of processMessage fails, the promise resolves to a
\* result with a content string and a non-empty error field.
C10_FaultsBecomeErrorResults ==
  \A s \in Slots :
    (IsPm(ops[s]) /\ ops[s].pc = "returned" /\ ops[s].failed)
      => /\ ops[s].result.status = "resolved"
         /\ ops[s].result.content # Undefined
         /\ ops[s].result.error # Undefined
         /\ ops[s].result.error # <<>>

(***************************************************************************)
(* Order of the steps of processMessage                                    *)
(***************************************************************************)
\* the events of a complete processMessage run, in the order of the code
PmOrder ==
  <<"findChat", "findDataset", "presign", "fetch", "write", "schema",
    "history", "addUser", "oracle", "extract", "addAssistant", "unlink">>

IsPrefix(t, u) == Len(t) <= Len(u) /\ t = SubSeq(u, 1, Len(t))

HasRow(rows, role, content) ==
  \E n \in 1..Len(rows) : rows[n].role = role /\ rows[n].content = content

\* C11: the steps of a processMessage run are a prefix of the fixed order
\* ownership check, download, schema, history, user message, oracle,
\* extraction, assistant message; the oracle is invoked at most once and only
\* with a schema in hand and the user message already persisted; an
\* assistant row is the reply of an oracle call that returned; a run that
\* has failed takes no further step.
C11_FixedOrder ==
  /\ [](/\ \A s \in Slots :
            IsPm(ops[s]) =>
              /\ IsPrefix(ops[s].trace, PmOrder)
              /\ Did(ops[s], "oracle") =>
                   /\ ops[s].schema # Undefined
                   /\ HasRow(messages[ops[s].chatId], "user", ops[s].text)
              /\ ops[s].failed => ops[s].pc = "returned"
        /\ \A c \in ChatIds : \A n \in 1..Len(messages[c]) :
             messages[c][n].role = "assistant" =>
               \E s \in Slots :
                 /\ IsPm(ops[s]) /\ ops[s].chatId = c
                 /\ Did(ops[s], "extract")
                 /\ ops[s].reply = messages[c][n].content)
  /\ [][\A s \in Slots : ops[s].failed => ops'[s] = ops[s]]_vars

\* a run went through every step, and the oracle's reply became a row
C11_Witness ==
  \E s \in Slots :
    /\ IsPm(ops[s]) /\ ops[s].pc = "returned" /\ ~ops[s].failed
    /\ ops[s].trace = PmOrder
    /\ HasRow(messages[ops[s].chatId], "assistant", ops[s].reply)

(***************************************************************************)
(* Properties of the Dataset Materializer                                  *)
(***************************************************************************)
IsMat(op) == op.kind \in MatKinds

\* C12: a processJsonFile / processCsvFile call that returns an error has
\* written no object to the blob store, and the put is issued only after
\* the pipeline has finished and the .db file has been read back.
C12_NoPartialDurableWrites ==
  \A s \in Slots :
    IsMat(ops[s]) =>
      /\ (ops[s].pc = "returned" /\ ops[s].result.error # Undefined) =>
            \A k \in DOMAIN blobs \ DOMAIN ops[s].blobsBefore :
              k # ops[s].upload
      /\ Did(ops[s], "upload") =>
            /\ IsPrefix(<<"writeSource", "ingest", "readDb", "upload">>,
                        ops[s].trace)

\* C13: an operation that has come to its final scratch-file removal with a
\* success in hand returns that success, whether or not the removal worked.
C13_CleanupFailureSwallowed ==
  \A s \in Slots :
    (ops[s].pc = "returned" /\ Did(ops[s], "unlink")) =>
       /\ ops[s].result.status = "resolved"
       /\ IsPm(ops[s]) => /\ ops[s].result.content = ops[s].reply
                          /\ ops[s].result.error = Undefined
       /\ IsEq(ops[s]) => ops[s].result.rows # Undefined
       /\ (IsMat(ops[s]) /\ ops[s].upload # Undefined) =>
            /\ ops[s].result.key = ops[s].upload
            /\ ops[s].result.error = Undefined

\* the scratch paths and the durable key an operation holds, by role
PathsOf(s) == {<<s, "source", ops[s].srcPath>>, <<s, "db", ops[s].dbPath>>}

\* C18: with fresh unique ids, the durable keys produced by
\* uploadPrivateDataset are pairwise distinct, and so are the scratch source
\* and .db paths used by processJsonFile and processCsvFile.
C18_NoCollisions ==
  LET mat == {s \in Slots : IsMat(ops[s])}
      paths == UNION {PathsOf(s) : s \in mat}
  IN /\ \A p \in paths : \A q \in paths : p # q => p[3] # q[3]
     /\ \A a \in mat : \A b \in mat \ {a} :
          ops[a].upload # Undefined => ops[a].upload # ops[b].upload

(***************************************************************************)
(* SqliteService: Schema Builder (inferColumnType, inferColumnsFromObject) *)
(* An object is the sequence of its own enumerable [key, value] entries in *)
(* the order Object.entries yields them; keys are pairwise distinct.       *)
(***************************************************************************)
FieldNames == {"", "id", "a", "b"}

\* one value of every kind inferColumnType tells apart
FieldValues ==
  {"null", "undefined", "integer", "fraction", "string", "boolean", "buffer",
   "object"}

Entry(key, value) == [key |-> key, value |-> value]

SampleItems ==
  {r \in UNION {[1..n -> [key : FieldNames, value : FieldValues]] :
                  n \in 0..MaxFields} :
     \A i \in 1..Len(r) : \A j \in 1..Len(r) : i # j => r[i].key # r[j].key}

\* the values inferColumnType is applied to directly: those above and a
\* few more shapes of number, string and object
ValueShapes ==
  FieldValues \cup {"nan", "infinity", "numeric string", "array", "bigint",
                    "function"}

\* typeof value
TypeOf(value) ==
  CASE value \in {"integer", "fraction", "nan", "infinity"} -> "number"
    [] value \in {"string", "numeric string"} -> "string"
    [] value = "boolean" -> "boolean"
    [] value = "undefined" -> "undefined"
    [] value = "bigint" -> "bigint"
    [] value = "function" -> "function"
    [] OTHER -> "object"

\* Number.isInteger(value)
NumberIsInteger(value) == value = "integer"

\* mutant: a boolean is stored as TEXT
inferColumnType_boolText(value) ==
  IF value \in {"null", "undefined"} THEN "NULL"
  ELSE IF TypeOf(value) = "number"
    THEN IF NumberIsInteger(value) THEN "INTEGER" ELSE "REAL"
  ELSE IF value = "buffer" THEN "BLOB"
  ELSE "TEXT"

inferColumnType(value) ==
  IF value \in {"null", "undefined"} THEN "NULL"
  ELSE IF TypeOf(value) = "number"
    THEN IF NumberIsInteger(value) THEN "INTEGER" ELSE "REAL"
  ELSE IF TypeOf(value) = "string" THEN "TEXT"
  ELSE IF TypeOf(value) = "boolean" THEN "INTEGER"
  ELSE IF value = "buffer" THEN "BLOB"
  ELSE "TEXT"

Column(name, type, primaryKey) ==
  [name |-> name, type |-> type, primaryKey |-> primaryKey]

\* the loop over Object.entries(obj): an entry with an empty key is skipped
RECURSIVE ColumnsOfEntries(_)
ColumnsOfEntries(entries) ==
  IF entries = <<>> THEN <<>>
  ELSE IF Head(entries).key = "" THEN ColumnsOfEntries(Tail(entries))
  ELSE <<Column(Head(entries).key, inferColumnType(Head(entries).value), FALSE)>>
         \o ColumnsOfEntries(Tail(entries))

\* mutant: the synthetic id column is pushed last
inferColumnsFromObject_idLast(obj) ==
  ColumnsOfEntries(obj) \o <<Column("id", "INTEGER", TRUE)>>

inferColumnsFromObject(obj) ==
  <<Column("id", "INTEGER", TRUE)>> \o ColumnsOfEntries(obj)

InitInfer ==
  /\ llmBuild = "index.ts"
  /\ call \in {[fn |-> "inferColumnsFromObject", obj |-> r] : r \in SampleItems}
              \cup {[fn |-> "inferColumnType", value |-> v] : v \in ValueShapes}
  /\ outcome = NotBuilt
  /\ reply = <<>>
  /\ extracted = NotRun
  /\ ing = IngIdle
  /\ StoresIdle

ApplyInfer ==
  /\ outcome = NotBuilt
  /\ call.fn = "inferColumnsFromObject"
  /\ outcome' = [done |-> TRUE, columns |-> inferColumnsFromObject(call.obj)]
  /\ UNCHANGED <<llmBuild, call, reply, extracted, ing, stores>>

\* inferColumnType(value): no statement of it can throw
ApplyInferType ==
  /\ outcome = NotBuilt
  /\ call.fn = "inferColumnType"
  /\ outcome' = [done |-> TRUE, threw |-> FALSE, type |-> inferColumnType(call.value)]
  /\ UNCHANGED <<llmBuild, call, reply, extracted, ing, stores>>

NextInfer == ApplyInfer \/ ApplyInferType

SpecInfer == InitInfer /\ [][NextInfer]_vars

(***************************************************************************)
(* Properties of the Schema Builder                                        *)
(***************************************************************************)
IdColumn == Column("id", "INTEGER", TRUE)

HasName(e) == e.key # ""

FieldColumn(e) == Column(e.key, inferColumnType(e.value), FALSE)

C15_DistinctColumnNames ==
  (call.fn = "inferColumnsFromObject" /\ outcome.done) =>
    LET cols == outcome.columns
    IN /\ \A i \in 1..Len(cols) : \A j \in 1..Len(cols) :
            i # j => cols[i].name # cols[j].name
       /\ \A i \in 1..Len(cols) : cols[i].primaryKey <=> i = 1
       /\ cols[1].name = "id"

(***************************************************************************)
(* fileController.deleteDataset / renameDataset over S3Service and the     *)
(* Dataset model: every await is a step of its own                         *)
(***************************************************************************)
\* req.body.newName: absent, a plain name, the current name of d1, a name
\* with a slash in it
NewNames == {<<>>, <<"n">>, <<"a", ".db">>, <<"b", ".db">>, <<"x", "/", "id2">>}

RECURSIVE LastIndexOf(_, _)
LastIndexOf(s, tok) ==
  IF s = <<>> THEN 0
  ELSE IF s[Len(s)] = tok THEN Len(s)
  ELSE LastIndexOf(SubSeq(s, 1, Len(s) - 1), tok)

\* key.split('/').pop()
LastSegment(key) == SubSeq(key, LastIndexOf(key, "/") + 1, Len(key))

\* fullName.split('_')[0]
FirstPart(fullName) ==
  LET i == IndexOf(fullName, {"_"}, 1)
  IN IF i = 0 THEN fullName ELSE SubSeq(fullName, 1, i - 1)

\* privateDatasetPrefix + userId + "/" + uniqueId + "_" + newName
RenamedKey(key, newName, userId) ==
  <<privateDatasetPrefix, userId, "/">> \o FirstPart(LastSegment(key))
    \o <<"_">> \o newName

RemoveBlob(store, key) == [k \in DOMAIN store \ {key} |-> store[k]]

PutBlob(store, key, data) ==
  [k \in DOMAIN store \cup {key} |-> IF k = key THEN data ELSE store[k]]

NoSuchKey == Err(<<"The specified key does not exist.">>)

\* ON DELETE CASCADE from datasets to chats and from chats to chat_messages
CascadeChats(rows, datasetId) ==
  [c \in ChatIds |->
     IF rows[c] # NoRow /\ rows[c].dataset_id = datasetId THEN NoRow ELSE rows[c]]

CascadeMessages(msgs, rows, datasetId) ==
  [c \in ChatIds |->
     IF rows[c] # NoRow /\ rows[c].dataset_id = datasetId THEN <<>> ELSE msgs[c]]

\* res.status(..).json({...})
Respond(op, http, error, partial) ==
  [op EXCEPT !.pc = "returned",
             !.result = [NoResult EXCEPT !.status = "resolved", !.http = http,
                                         !.error = error,
                                         !.partialSuccess = partial,
                                         !.key = IF partial THEN op.newKey
                                                            ELSE Undefined]]

\* catch (error) { next(error) }: the framework's default handler answers
\* 500 with the error; the body carries no field of the controller
NextError(op, e, step) ==
  [op EXCEPT !.pc = "returned", !.fault = step, !.failed = TRUE,
             !.result = [NoResult EXCEPT !.status = "resolved", !.http = "500",
                                         !.thrown = e]]

\* deleteDataset / renameDataset up to the first await
FileRequest(s) ==
  /\ ops[s].pc = "idle"
  /\ \E kind \in {"deleteDataset", "renameDataset"}, id \in DatasetIds,
        userId \in Users, newName \in NewNames :
       LET op == [OpIdle EXCEPT !.kind = kind, !.user = userId,
                                !.datasetId = id, !.blobsBefore = blobs,
                                !.newName = IF kind = "renameDataset"
                                              THEN newName ELSE <<>>]
       IN /\ kind = "deleteDataset" => newName = <<>>
          /\ SetOp(s, IF kind = "renameDataset" /\ newName = <<>>
                        THEN Respond(op, "400", <<"New name is required">>, FALSE)
                        ELSE [op EXCEPT !.pc = "fc_find"])
  /\ UNCHANGED <<llmBuild, call, outcome, reply, extracted, ing, apiKey,
                 datasets, chats, messages, blobs, tempFiles, uuids>>

\* const dataset = await Dataset.findByFileId(id)
FcFind(s) ==
  /\ ops[s].pc = "fc_find"
  /\ LET op == Ev(ops[s], "find")
         dataset == datasets[op.datasetId]
     IN \/ \E e \in Faults : SetOp(s, NextError(op, e, "find"))
        \/ SetOp(s, IF dataset = NoRow
                      THEN Respond(op, "404", <<"Dataset not found">>, FALSE)
                      ELSE [op EXCEPT !.row = dataset,
                                      !.pc = IF op.kind = "deleteDataset"
                                               THEN "dd_s3" ELSE "rn_get"])
  /\ UNCHANGED <<llmBuild, call, outcome, reply, extracted, ing, apiKey,
                 datasets, chats, messages, blobs, tempFiles, uuids>>

\* await S3Service.deleteDataset(dataset.file_key)
DdS3(s) ==
  /\ ops[s].pc = "dd_s3"
  /\ LET op == ops[s]
     IN \/ /\ \E e \in Faults :
                SetOp(s, IF e.isError
                           THEN NextError(op,
                                  Err(<<"Failed to delete dataset: ">> \o e.message),
                                  "s3")
                           ELSE Respond(op, "500",
                                  <<"Failed to delete dataset from storage">>, FALSE))
           /\ UNCHANGED blobs
        \/ /\ blobs' = RemoveBlob(blobs, op.row.file_key)
           /\ SetOp(s, [Ev(op, "s3") EXCEPT !.pc = "dd_db"])
  /\ UNCHANGED <<llmBuild, call, outcome, reply, extracted, ing, apiKey,
                 datasets, chats, messages, tempFiles, uuids>>

\* await Dataset.deleteByFileKey(dataset.file_key) and the response
DdDb(s) ==
  /\ ops[s].pc = "dd_db"
  /\ LET op == ops[s]
         hit == {d \in DatasetIds : datasets[d] # NoRow
                                    /\ datasets[d].file_key = op.row.file_key}
     IN \/ /\ \E e \in Faults : SetOp(s, NextError(op, e, "db"))
           /\ UNCHANGED <<datasets, chats, messages>>
        \/ /\ hit = {}
           /\ SetOp(s, Respond(op, "500",
                <<"Dataset was deleted from storage but failed to update database records">>,
                TRUE))
           /\ UNCHANGED <<datasets, chats, messages>>
        \/ \E d \in hit :
             /\ datasets' = [datasets EXCEPT ![d] = NoRow]
             /\ chats' = CascadeChats(chats, d)
             /\ messages' = CascadeMessages(messages, chats, d)
             /\ SetOp(s, Respond(Ev(op, "db"), "200", Undefined, FALSE))
  /\ UNCHANGED <<llmBuild, call, outcome, reply, extracted, ing, apiKey,
                 blobs, tempFiles, uuids>>

\* S3Service.renameDataset: a thrown Error is rethrown with a prefix and
\* reaches next(error); any other thrown value makes it return nothing
RenameFailed(op, e) ==
  IF e.isError
    THEN NextError(op, Err(<<"Failed to rename dataset: ">> \o e.message), "s3")
    ELSE Respond(op, "500", <<"Failed to rename dataset in storage">>, FALSE)

\* S3Service.renameDataset: await s3.send(getCommand), then the new key
RnGet(s) ==
  /\ ops[s].pc = "rn_get"
  /\ LET op == ops[s]
         key == op.row.file_key
     IN \/ \E e \in Faults : SetOp(s, RenameFailed(op, e))
        \/ /\ key \notin DOMAIN blobs
           /\ SetOp(s, RenameFailed(op, NoSuchKey))
        \/ /\ key \in DOMAIN blobs
           /\ SetOp(s, [Ev(op, "get") EXCEPT
                          !.pc = "rn_copy",
                          !.newKey = RenamedKey(key, op.newName, op.user)])
  /\ UNCHANGED <<llmBuild, call, outcome, reply, extracted, ing, apiKey,
                 datasets, chats, messages, blobs, tempFiles, uuids>>

\* S3Service.renameDataset: await s3.send(copyCommand).  A copy of an
\* object onto its own key with unchanged metadata is refused by S3; a
\* compatible store may accept it as a no-op.
RnCopy(s) ==
  /\ ops[s].pc = "rn_copy"
  /\ LET op == ops[s]
         key == op.row.file_key
     IN \/ /\ \E e \in Faults : SetOp(s, RenameFailed(op, e))
           /\ UNCHANGED blobs
        \/ /\ key \notin DOMAIN blobs
           /\ SetOp(s, RenameFailed(op, NoSuchKey))
           /\ UNCHANGED blobs
        \/ /\ key \in DOMAIN blobs /\ op.newKey = key
           /\ SetOp(s, RenameFailed(op, Err(<<"This copy request is illegal">>)))
           /\ UNCHANGED blobs
        \/ /\ key \in DOMAIN blobs
           /\ blobs' = PutBlob(blobs, op.newKey, blobs[key])
           /\ SetOp(s, [Ev(op, "copy") EXCEPT !.pc = "rn_delete"])
  /\ UNCHANGED <<llmBuild, call, outcome, reply, extracted, ing, apiKey,
                 datasets, chats, messages, tempFiles, uuids>>

\* S3Service.renameDataset: await s3.send(deleteCommand); return newKey
RnDelete(s) ==
  /\ ops[s].pc = "rn_delete"
  /\ LET op == ops[s]
     IN \/ /\ \E e \in Faults : SetOp(s, RenameFailed(op, e))
           /\ UNCHANGED blobs
        \/ /\ blobs' = RemoveBlob(blobs, op.row.file_key)
           /\ SetOp(s, [Ev(op, "s3") EXCEPT !.pc = "rn_updKey"])
  /\ UNCHANGED <<llmBuild, call, outcome, reply, extracted, ing, apiKey,
                 datasets, chats, messages, tempFiles, uuids>>

\* await Dataset.updateFileKey(dataset.id, newKey); file_key is UNIQUE
RnUpdKey(s) ==
  /\ ops[s].pc = "rn_updKey"
  /\ LET op == ops[s]
         id == op.datasetId
         taken == \E d \in DatasetIds \ {id} :
                     datasets[d] # NoRow /\ datasets[d].file_key = op.newKey
     IN \/ /\ \E e \in Faults : SetOp(s, NextError(op, e, "db"))
           /\ UNCHANGED datasets
        \/ /\ datasets[id] = NoRow
           /\ SetOp(s, [op EXCEPT !.pc = "rn_updName"])
           /\ UNCHANGED datasets
        \/ /\ datasets[id] # NoRow /\ taken
           /\ SetOp(s, NextError(op, Err(<<"duplicate key value violates ",
                                          "unique constraint">>), "none"))
           /\ UNCHANGED datasets
        \/ /\ datasets[id] # NoRow /\ ~taken
           /\ datasets' = [datasets EXCEPT ![id].file_key = op.newKey]
           /\ SetOp(s, [Ev(op, "updKey") EXCEPT !.pc = "rn_updName"])
  /\ UNCHANGED <<llmBuild, call, outcome, reply, extracted, ing, apiKey,
                 chats, messages, blobs, tempFiles, uuids>>

\* await Dataset.updateName(dataset.id, newName) and the response
RnUpdName(s) ==
  /\ ops[s].pc = "rn_updName"
  /\ LET op == ops[s]
         id == op.datasetId
         partial == Respond(op, "500",
           <<"Dataset was renamed in storage but failed to update database records">>,
           TRUE)
     IN \/ /\ \E e \in Faults : SetOp(s, NextError(op, e, "db"))
           /\ UNCHANGED datasets
        \/ /\ datasets[id] = NoRow
           /\ SetOp(s, partial)
           /\ UNCHANGED datasets
        \/ /\ datasets[id] # NoRow
           /\ datasets' = [datasets EXCEPT ![id].name = op.newName]
           /\ SetOp(s, IF Did(op, "updKey")
                         THEN Respond(Ev(op, "db"), "200", Undefined, FALSE)
                         ELSE partial)
  /\ UNCHANGED <<llmBuild, call, outcome, reply, extracted, ing, apiKey,
                 chats, messages, blobs, tempFiles, uuids>>

\* req.files.file of POST /upload-dataset: absent, or a file of that name
UploadNames == {<<>>, <<"a", ".db">>}

\* uploadDataset up to its await: the file must be there
UploadDataset(s) ==
  /\ ops[s].pc = "idle"
  /\ \E userId \in Users, name \in UploadNames :
       LET op == [OpIdle EXCEPT !.kind = "uploadDataset", !.user = userId,
                                !.text = name, !.blobsBefore = blobs]
       IN SetOp(s, IF name = <<>>
                     THEN Respond(op, "400", <<"No file uploaded">>, FALSE)
                     ELSE [op EXCEPT !.pc = "ud_put"])
  /\ UNCHANGED <<llmBuild, call, outcome, reply, extracted, ing, apiKey,
                 datasets, chats, messages, blobs, tempFiles, uuids>>

\* const result = await S3Service.uploadPrivateDataset(file, userId)
UdPut(s) ==
  /\ ops[s].pc = "ud_put"
  /\ uuids' = uuids + 1
  /\ \E fault \in Faults \cup {NoFault} :
       LET op == Ev(ops[s], "s3")
           r == uploadPrivateDataset(blobs, op.text, DbContent("upload"),
                                     op.user, Uuid(uuids + 1), fault)
       IN /\ blobs' = r.blobs
          /\ SetOp(s, IF r.threw THEN NextError(op, r.thrown, "s3")
                      ELSE IF r.key = Undefined
                        THEN Respond(op, "500",
                               <<"Failed to upload dataset to storage">>, FALSE)
                      ELSE [op EXCEPT !.pc = "ud_create", !.upload = r.key])
  /\ UNCHANGED <<llmBuild, call, outcome, reply, extracted, ing, apiKey,
                 datasets, chats, messages, tempFiles>>

\* the ids Dataset.create can draw: never one of a row that exists
FreshIds == {d \in {"d3", "d4"} : datasets[d] = NoRow}

\* await Dataset.create(fileName, result.key, userId, ...) and the response
UdCreate(s) ==
  /\ ops[s].pc = "ud_create"
  /\ LET op == Ev(ops[s], "db")
     IN \/ /\ \E e \in Faults : SetOp(s, NextError(op, e, "db"))
           /\ UNCHANGED datasets
        \/ /\ FreshIds # {}
           /\ LET d == CHOOSE x \in FreshIds : TRUE
              IN /\ datasets' = [datasets EXCEPT ![d] =
                      [id |-> d, user_id |-> op.user, name |-> op.text,
                       file_key |-> op.upload]]
                 /\ SetOp(s, Respond([op EXCEPT !.datasetId = d], "200",
                                     Undefined, FALSE))
  /\ UNCHANGED <<llmBuild, call, outcome, reply, extracted, ing, apiKey,
                 chats, messages, blobs, tempFiles, uuids>>

\* the fileKey query parameter of GET /private-url: absent, the key of
\* either stored dataset, or a key nothing is stored under
FileKeys ==
  {<<>>, KeyOf("u1", "id1", <<"a", ".db">>), KeyOf("u2", "id2", <<"b", ".db">>),
   KeyOf("u1", "id9", <<"z">>)}

\* getSignedUrl(s3, new GetObjectCommand({ Bucket, Key: fileKey }), ...):
\* signed locally, for whatever key it is given
SignedUrl(fileKey) == <<"https://bucket/">> \o fileKey \o <<"?X-Amz-Signature">>

\* getPrivateUrl up to its await: the fileKey parameter is validated
GetPrivateUrl(s) ==
  /\ ops[s].pc = "idle"
  /\ \E userId \in Users, fileKey \in FileKeys :
       LET op == [OpIdle EXCEPT !.kind = "getPrivateUrl", !.user = userId,
                                !.text = fileKey, !.blobsBefore = blobs]
       IN SetOp(s, IF fileKey = <<>>
                     THEN Respond(op, "400", <<"Valid file key required">>, FALSE)
                     ELSE [op EXCEPT !.pc = "pu_sign"])
  /\ UNCHANGED <<llmBuild, call, outcome, reply, extracted, ing, apiKey,
                 datasets, chats, messages, blobs, tempFiles, uuids>>

\* const url = await S3Service.generatePresignedUrl(fileKey); res.json({ url })
PuSign(s) ==
  /\ ops[s].pc = "pu_sign"
  /\ LET op == Ev(ops[s], "presign")
         ok == Respond(op, "200", Undefined, FALSE)
     IN \/ \E e \in Faults :
             SetOp(s, IF e.isError
                        THEN NextError(op, Err(<<"Failed to generate URL: ">>
                                                 \o e.message), "presign")
                        ELSE ok)
        \/ SetOp(s, [ok EXCEPT !.result.content = SignedUrl(op.text)])
  /\ UNCHANGED <<llmBuild, call, outcome, reply, extracted, ing, apiKey,
                 datasets, chats, messages, blobs, tempFiles, uuids>>

InitFiles ==
  /\ llmBuild = "index.ts"
  /\ call = NoCall
  /\ outcome = NotBuilt
  /\ reply = <<>>
  /\ extracted = NotRun
  /\ ing = IngIdle
  /\ StoresIdle

NextFiles ==
  \/ \E s \in Slots : FileRequest(s)
  \/ \E s \in Slots : FcFind(s)
  \/ \E s \in Slots : DdS3(s)
  \/ \E s \in Slots : DdDb(s)
  \/ \E s \in Slots : RnGet(s)
  \/ \E s \in Slots : RnCopy(s)
  \/ \E s \in Slots : RnDelete(s)
  \/ \E s \in Slots : RnUpdKey(s)
  \/ \E s \in Slots : RnUpdName(s)
  \/ \E s \in Slots : UploadDataset(s)
  \/ \E s \in Slots : UdPut(s)
  \/ \E s \in Slots : UdCreate(s)
  \/ \E s \in Slots : GetPrivateUrl(s)
  \/ \E s \in Slots : PuSign(s)

SpecFiles == InitFiles /\ [][NextFiles]_vars

(***************************************************************************)
(* Properties of dataset management                                        *)
(***************************************************************************)
IsRename(op) == op.kind = "renameDataset"

RenameSucceeded(op) ==
  IsRename(op) /\ op.pc = "returned" /\ op.result.http = "200"

\* the key the dataset was stored under is <prefix>/<owner>/<uid>_<old>
StoredUnderOwner(row) ==
  /\ Len(row.file_key) > 5
  /\ row.file_key = KeyOf(row.user_id, row.file_key[4],
                          SubSeq(row.file_key, 6, Len(row.file_key)))

\* C16: when a renameDataset request answers success for a dataset stored
\* under <prefix>/<owner>/<uid>_<old>, then at that moment the content is
\* stored under <prefix>/<owner>/<uid>_<new name>, the old key is gone, and
\* the metadata row holds that new key and the new name.
C16_RenameReplacesKey ==
  [][\A s \in Slots :
       (/\ ~RenameSucceeded(ops[s]) /\ RenameSucceeded(ops'[s])
        /\ StoredUnderOwner(ops'[s].row))
         => LET op == ops'[s]
                old == op.row.file_key
                new == KeyOf(op.row.user_id, old[4], op.newName)
            IN /\ new \in DOMAIN blobs'
               /\ blobs'[new] = op.blobsBefore[old]
               /\ old \notin DOMAIN blobs'
               /\ datasets'[op.datasetId] # NoRow
               /\ datasets'[op.datasetId].file_key = new
               /\ datasets'[op.datasetId].name = op.newName]_vars

\* C17: a deleteDataset or renameDataset request whose blob-store step went
\* through and whose metadata step did not take effect answers with the
\* partial-success flag.
C17_PartialFailureFlagged ==
  \A s \in Slots :
    (/\ ops[s].kind \in {"deleteDataset", "renameDataset"}
     /\ ops[s].pc = "returned"
     /\ Did(ops[s], "s3") /\ ~Did(ops[s], "db"))
      => ops[s].result.partialSuccess

(***************************************************************************)
(* Tables built by csvToSqlite / jsonToSqlite and read back by             *)
(* LLMService.getDatabaseSchema.  A database file is the sequence of its   *)
(* tables; a statement the engine refuses is marked on the file, the       *)
(* statements after it still run (see StatementFailsIgnored).              *)
(***************************************************************************)
\* options.tableName / keys of the payload: a plain name, a name that is
\* only valid inside quotes, a name matched by LIKE 'sqlite_%', a name the
\* engine reserves
TableNames == {"t", "my table", "sqlitedb", "sqlite_x"}

ColumnNames == {"a", "A", "b"}

\* IColumnDefinition.type; REAL, INTEGER and BLOB behave like TEXT here
DeclaredTypes == {"TEXT", "REAL", "NULL"}

\* identifiers are compared without regard to case
Lower(name) == IF name = "A" THEN "a" ELSE name

\* the type name the engine records for  "name" TYPE : the word NULL is
\* read as a column constraint, which leaves the column without a type name
TypeName(type) == IF type = "NULL" THEN "" ELSE type

ReservedName(name) == name = "sqlite_x"

\* name LIKE 'sqlite_%': sqlite, any one character, anything
LikeSqlite(name) == name \in {"sqlitedb", "sqlite_x"}

\* PRAGMA table_info(name) is sent without quotes
NeedsQuotes(name) == name = "my table"

EmptyDb == [tables |-> <<>>, failed |-> FALSE]

TableAt(db, name) ==
  LET hits == {i \in 1..Len(db.tables) : db.tables[i].name = name}
  IN IF hits = {} THEN 0 ELSE CHOOSE i \in hits : TRUE

\* CREATE TABLE is refused for a reserved name, an empty column list, two
\* columns of one name or two primary keys
CreateRefused(table) ==
  \/ ReservedName(table.name)
  \/ table.columns = <<>>
  \/ \E i \in 1..Len(table.columns) : \E j \in 1..Len(table.columns) :
       /\ i # j
       /\ \/ Lower(table.columns[i].name) = Lower(table.columns[j].name)
          \/ table.columns[i].primaryKey /\ table.columns[j].primaryKey

\* CREATE TABLE IF NOT EXISTS "name" ("col" TYPE [PRIMARY KEY], ...)
createTableFromDefinition(db, table) ==
  IF CreateRefused(table) THEN [db EXCEPT !.failed = TRUE]
  ELSE IF TableAt(db, table.name) # 0 THEN db
  ELSE [db EXCEPT !.tables = Append(@,
          [name |-> table.name,
           columns |-> [i \in 1..Len(table.columns) |->
                          [name |-> table.columns[i].name,
                           type |-> TypeName(table.columns[i].type)]],
           rows |-> 0])]

createTableFromColumns(db, tableName, columns) ==
  createTableFromDefinition(db, [name |-> tableName, columns |-> columns])

NotId(e) == e.key # "id"

\* INSERT INTO "table" (keys of the record but id) VALUES (?, ...): refused
\* without the table, with no column at all or with a column the table
\* does not have
InsertRow(db, tableName, data) ==
  LET at == TableAt(db, tableName)
      cols == SelectSeq(data, NotId)
      ok == /\ at # 0
            /\ cols # <<>>
            /\ \A i \in 1..Len(cols) :
                 \E j \in 1..Len(db.tables[at].columns) :
                   Lower(db.tables[at].columns[j].name) = Lower(cols[i].key)
  IN IF ok THEN [db EXCEPT !.tables[at].rows = @ + 1]
           ELSE [db EXCEPT !.failed = TRUE]

\* for (const item of items) this.insertDataIntoTable(db, tableName, item)
RECURSIVE InsertAll(_, _, _)
InsertAll(db, tableName, items) ==
  IF items = <<>> THEN db
  ELSE InsertAll(InsertRow(db, tableName, Head(items)), tableName, Tail(items))

\* csvToSqlite between BEGIN and COMMIT
CsvTables(rows, options) ==
  InsertAll(createTableFromDefinition(EmptyDb,
              [name |-> options.tableName, columns |-> options.columns]),
            options.tableName, rows)

\* jsonData[table.name] when jsonData is an object
ValueAt(jsonData, key) ==
  LET hits == {i \in 1..Len(jsonData.entries) : jsonData.entries[i].key = key}
  IN IF hits = {} THEN [isArray |-> FALSE, items |-> <<>>]
     ELSE jsonData.entries[CHOOSE i \in hits : TRUE].value

\* the explicit mode: for (const table of options.tables) { ... }
RECURSIVE ExplicitTables(_, _, _)
ExplicitTables(db, tables, jsonData) ==
  IF tables = <<>> THEN db
  ELSE LET table == Head(tables)
           made == createTableFromDefinition(db, table)
           items == IF jsonData.isArray THEN jsonData.items
                    ELSE IF ValueAt(jsonData, table.name).isArray
                      THEN ValueAt(jsonData, table.name).items
                    ELSE <<>>
       IN ExplicitTables(InsertAll(made, table.name, items), Tail(tables),
                         jsonData)

\* const sampleItem = items[0] || {}
SampleOf(items) == IF items = <<>> THEN <<>> ELSE Head(items)

\* the inferred mode on an object: one table per key whose value is an
\* array that is not empty
RECURSIVE InferredEntries(_, _)
InferredEntries(db, entries) ==
  IF entries = <<>> THEN db
  ELSE LET e == Head(entries)
       IN IF e.value.isArray /\ Len(e.value.items) > 0
            THEN InferredEntries(
                   InsertAll(createTableFromColumns(db, e.key,
                               inferColumnsFromObject(SampleOf(e.value.items))),
                             e.key, e.value.items),
                   Tail(entries))
            ELSE InferredEntries(db, Tail(entries))

RawTable ==
  [name |-> "json_data",
   columns |-> <<[name |-> "id", type |-> "INTEGER"],
                 [name |-> "data", type |-> "TEXT"]>>,
   rows |-> 1]

\* mutant: an array payload is inferred even when inferTypes is not set
JsonTables_byShape(jsonData, options) ==
  IF options.tables # <<>>
    THEN ExplicitTables(EmptyDb, options.tables, jsonData)
  ELSE IF options.inferTypes \/ jsonData.isArray
    THEN IF jsonData.isArray
           THEN InsertAll(createTableFromColumns(EmptyDb, "data",
                            inferColumnsFromObject(SampleOf(jsonData.items))),
                          "data", jsonData.items)
           ELSE InferredEntries(EmptyDb, jsonData.entries)
  ELSE [EmptyDb EXCEPT !.tables = <<RawTable>>]

\* jsonToSqlite between BEGIN and COMMIT: explicit, inferred or raw mode
JsonTables(jsonData, options) ==
  IF options.tables # <<>>
    THEN ExplicitTables(EmptyDb, options.tables, jsonData)
  ELSE IF options.inferTypes
    THEN IF jsonData.isArray
           THEN InsertAll(createTableFromColumns(EmptyDb, "data",
                            inferColumnsFromObject(SampleOf(jsonData.items))),
                          "data", jsonData.items)
           ELSE InferredEntries(EmptyDb, jsonData.entries)
  ELSE [EmptyDb EXCEPT !.tables = <<RawTable>>]

NotLikeSqlite(table) == ~LikeSqlite(table.name)

\* getDatabaseSchema: the tables whose name is NOT LIKE 'sqlite_%', each
\* with the name and type of its columns from PRAGMA table_info
getDatabaseSchema(db) ==
  LET listed == SelectSeq(db.tables, NotLikeSqlite)
      bad == {i \in 1..Len(listed) : NeedsQuotes(listed[i].name)}
  IN IF bad # {}
       THEN [ok |-> FALSE, tables |-> <<>>,
             thrown |-> Err(<<"Failed to get columns for table ",
                              listed[CHOOSE i \in bad : TRUE].name>>)]
       ELSE [ok |-> TRUE, thrown |-> NotAnError,
             tables |-> [i \in 1..Len(listed) |->
                           [name |-> listed[i].name,
                            columns |-> listed[i].columns]]]

\* options.columns of a CSV upload: one to MaxFields declared columns
ColumnLists ==
  UNION {[1..n -> {Column(c, ty, FALSE) : c \in ColumnNames, ty \in DeclaredTypes}] :
           n \in 1..MaxFields}

\* a parsed CSV line under the header  a
CsvRow == <<Entry("a", "string")>>

CsvCalls ==
  {[fn |-> "csvToSqlite", rows |-> rows,
    options |-> [tableName |-> name, columns |-> cols]] :
     rows \in Batches({CsvRow}), name \in TableNames, cols \in ColumnLists}

JsonItems ==
  {<<>>, <<Entry("a", "integer")>>, <<Entry("id", "integer"), Entry("a", "string")>>}

JsonArrays == {[isArray |-> TRUE, items |-> items] : items \in Batches(JsonItems)}

JsonValues == JsonArrays \cup {[isArray |-> FALSE, items |-> <<>>]}

JsonObjects ==
  {[isArray |-> FALSE, entries |-> <<>>]} \cup
  {[isArray |-> FALSE, entries |-> <<Entry("t", v)>>] : v \in JsonValues} \cup
  {[isArray |-> FALSE, entries |-> <<Entry("t", v), Entry("u", w)>>] :
     v \in JsonValues, w \in {[isArray |-> TRUE, items |-> <<>>],
                              [isArray |-> TRUE, items |-> <<<<Entry("a", "integer")>>>>]}}

TableT == [name |-> "t", columns |-> <<Column("a", "TEXT", FALSE)>>]

TableU == [name |-> "u", columns |-> <<Column("id", "INTEGER", TRUE),
                                       Column("a", "REAL", FALSE)>>]

JsonOptions ==
  {[tables |-> tables, inferTypes |-> inferTypes] :
     tables \in {<<>>, <<TableT>>, <<TableT, TableU>>}, inferTypes \in BOOLEAN}

JsonCalls ==
  {[fn |-> "jsonToSqlite", jsonData |-> d, options |-> o] :
     d \in JsonArrays \cup JsonObjects, o \in JsonOptions}

\* the promise of a run: resolved by the COMMIT callback, or never settled
\* when a refused statement ended the process
Built(db, survive) ==
  [done |-> TRUE, crashed |-> db.failed /\ ~survive, db |-> db,
   introspected |-> FALSE, schema |-> [ok |-> FALSE, tables |-> <<>>,
                                       thrown |-> NotAnError]]

InitBuild ==
  /\ llmBuild = "index.ts"
  /\ call \in CsvCalls \cup JsonCalls
  /\ outcome = NotBuilt
  /\ reply = <<>>
  /\ extracted = NotRun
  /\ ing = IngIdle
  /\ StoresIdle

ApplyCsvToSqlite ==
  /\ outcome = NotBuilt
  /\ call.fn = "csvToSqlite"
  /\ \E survive \in BOOLEAN :
       outcome' = Built(CsvTables(call.rows, call.options), survive)
  /\ UNCHANGED <<llmBuild, call, reply, extracted, ing, stores>>

ApplyJsonToSqlite ==
  /\ outcome = NotBuilt
  /\ call.fn = "jsonToSqlite"
  /\ \E survive \in BOOLEAN :
       outcome' = Built(JsonTables(call.jsonData, call.options), survive)
  /\ UNCHANGED <<llmBuild, call, reply, extracted, ing, stores>>

\* getDatabaseSchema on the file the run produced
Introspect ==
  /\ outcome.done
  /\ ~outcome.crashed
  /\ ~outcome.introspected
  /\ outcome' = [outcome EXCEPT !.introspected = TRUE,
                                !.schema = getDatabaseSchema(outcome.db)]
  /\ UNCHANGED <<llmBuild, call, reply, extracted, ing, stores>>

NextBuild ==
  \/ ApplyCsvToSqlite
  \/ ApplyJsonToSqlite
  \/ Introspect

SpecBuild == InitBuild /\ [][NextBuild]_vars

(***************************************************************************)
(* Properties of the built tables                                          *)
(***************************************************************************)
NamesAndTypes(columns) ==
  [i \in 1..Len(columns) |-> [name |-> columns[i].name, type |-> columns[i].type]]

\* C19: a CSV ingested with a declared table name and column list, then
\* introspected, yields exactly one table, of the declared name, whose
\* column names and type strings are the declared ones in the declared
\* order.
C19_CsvRoundTrip ==
  (call.fn = "csvToSqlite" /\ outcome.done) =>
    /\ ~outcome.crashed
    /\ outcome.introspected =>
         /\ outcome.schema.ok
         /\ Len(outcome.schema.tables) = 1
         /\ outcome.schema.tables[1].name = call.options.tableName
         /\ outcome.schema.tables[1].columns =
              NamesAndTypes(call.options.columns)

\* the definitions of the call are ones the engine accepts
Accepted(tables) == \A i \in 1..Len(tables) : ~CreateRefused(tables[i])

\* the table of that name is in the file and has no row
EmptyTable(db, name) ==
  TableAt(db, name) # 0 /\ db.tables[TableAt(db, name)].rows = 0

OnlyIdColumn(db, name) ==
  db.tables[TableAt(db, name)].columns = <<[name |-> "id", type |-> "INTEGER"]>>

\* C20: an empty input still creates its table.  A CSV with no row, an
\* explicit definition with no record, an inferred empty array and an
\* inferred object key with an empty array each end in a successful run
\* whose file has the table with zero rows; on the inferred paths the table
\* has only the id column.
C20_EmptyInputCreatesTable ==
  outcome.done =>
    /\ (call.fn = "csvToSqlite" /\ call.rows = <<>>
        /\ Accepted(<<[name |-> call.options.tableName,
                       columns |-> call.options.columns]>>)) =>
         /\ ~outcome.crashed /\ ~outcome.db.failed
         /\ EmptyTable(outcome.db, call.options.tableName)
    /\ (call.fn = "jsonToSqlite" /\ call.options.tables # <<>>
        /\ call.jsonData.isArray /\ call.jsonData.items = <<>>) =>
         /\ ~outcome.crashed /\ ~outcome.db.failed
         /\ \A i \in 1..Len(call.options.tables) :
              EmptyTable(outcome.db, call.options.tables[i].name)
    /\ (call.fn = "jsonToSqlite" /\ call.options.tables = <<>>
        /\ call.options.inferTypes /\ call.jsonData.isArray
        /\ call.jsonData.items = <<>>) =>
         /\ ~outcome.crashed /\ ~outcome.db.failed
         /\ EmptyTable(outcome.db, "data")
         /\ OnlyIdColumn(outcome.db, "data")
    /\ (call.fn = "jsonToSqlite" /\ call.options.tables = <<>>
        /\ call.options.inferTypes /\ ~call.jsonData.isArray) =>
         \A i \in 1..Len(call.jsonData.entries) :
           LET e == call.jsonData.entries[i]
           IN (e.value.isArray /\ e.value.items = <<>>) =>
                /\ ~outcome.crashed
                /\ EmptyTable(outcome.db, e.key)
                /\ OnlyIdColumn(outcome.db, e.key)

(***************************************************************************)
(* chatController.createChat, and chats served while datasets are renamed  *)
(***************************************************************************)
\* createChat up to its await: datasetId is required
CreateChat(s) ==
  /\ ops[s].pc = "idle"
  /\ \E userId \in Users, datasetId \in DatasetIds \cup {"none"} :
       LET op == [OpIdle EXCEPT !.kind = "createChat", !.user = userId,
                                !.datasetId = datasetId, !.blobsBefore = blobs]
       IN SetOp(s, IF datasetId = "none"
                     THEN Respond(op, "400", <<"Dataset ID is required">>, FALSE)
                     ELSE [op EXCEPT !.pc = "cc_find"])
  /\ UNCHANGED <<llmBuild, call, outcome, reply, extracted, ing, apiKey,
                 datasets, chats, messages, blobs, tempFiles, uuids>>

\* const dataset = await Dataset.findById(datasetId) and the ownership check
CcFind(s) ==
  /\ ops[s].pc = "cc_find"
  /\ LET op == Ev(ops[s], "find")
         dataset == datasets[op.datasetId]
     IN \/ \E e \in Faults : SetOp(s, NextError(op, e, "find"))
        \/ SetOp(s, IF dataset = NoRow
                      THEN Respond(op, "404", <<"Dataset not found">>, FALSE)
                    ELSE IF dataset.user_id # op.user
                      THEN Respond(op, "403",
                             <<"You do not have permission to access this dataset">>,
                             FALSE)
                    ELSE [op EXCEPT !.row = dataset, !.pc = "cc_create"])
  /\ UNCHANGED <<llmBuild, call, outcome, reply, extracted, ing, apiKey,
                 datasets, chats, messages, blobs, tempFiles, uuids>>

\* the ids Chat.create can draw
FreshChatIds == {c \in {"c3", "c4"} : chats[c] = NoRow}

\* await Chat.create(userId, datasetId, chatTitle): dataset_id REFERENCES
\* datasets(id), so the INSERT is refused once the dataset row is gone
CcCreate(s) ==
  /\ ops[s].pc = "cc_create"
  /\ LET op == Ev(ops[s], "db")
     IN \/ /\ \E e \in Faults : SetOp(s, NextError(op, e, "db"))
           /\ UNCHANGED chats
        \/ /\ datasets[op.datasetId] = NoRow
           /\ SetOp(s, NextError(op, Err(<<"violates foreign key constraint">>),
                                 "none"))
           /\ UNCHANGED chats
        \/ /\ datasets[op.datasetId] # NoRow
           /\ FreshChatIds # {}
           /\ LET c == CHOOSE x \in FreshChatIds : TRUE
              IN /\ chats' = [chats EXCEPT ![c] =
                      [id |-> c, user_id |-> op.user, dataset_id |-> op.datasetId]]
                 /\ SetOp(s, Respond([op EXCEPT !.chatId = c], "200", Undefined,
                                     FALSE))
  /\ UNCHANGED <<llmBuild, call, outcome, reply, extracted, ing, apiKey,
                 datasets, messages, blobs, tempFiles, uuids>>

\* the stores after PUT /datasets/d1/rename with newName x/id2 sent by u2
\* has gone through: d1's blob and key have moved under u2's prefix
MovedKey == RenamedKey(KeyOf("u1", "id1", <<"a", ".db">>), <<"x", "/", "id2">>, "u2")

MovedDatasets ==
  [InitialDatasets EXCEPT !["d1"].file_key = MovedKey,
                          !["d1"].name = <<"x", "/", "id2">>]

MovedBlobs ==
  (MovedKey :> DbContent("d1")) @@
  (KeyOf("u2", "id2", <<"b", ".db">>) :> DbContent("d2"))

\* the service as first started, or with that one rename behind it
InitChat ==
  /\ llmBuild = "index.ts"
  /\ call = NoCall
  /\ outcome = NotBuilt
  /\ reply = <<>>
  /\ extracted = NotRun
  /\ ing = IngIdle
  /\ apiKey = TRUE
  /\ \/ datasets = InitialDatasets /\ blobs = InitialBlobs
     \/ datasets = MovedDatasets /\ blobs = MovedBlobs
  /\ chats = InitialChats
  /\ messages = [c \in ChatIds |-> <<>>]
  /\ tempFiles = NoFiles
  /\ uuids = 0
  /\ ops = [s \in Slots |-> OpIdle]

NextChat ==
  \/ \E s \in Slots : CreateChat(s)
  \/ \E s \in Slots : CcFind(s)
  \/ \E s \in Slots : CcCreate(s)
  \/ \E s \in Slots : FileRequest(s)
  \/ \E s \in Slots : FcFind(s)
  \/ \E s \in Slots : DdS3(s)
  \/ \E s \in Slots : DdDb(s)
  \/ \E s \in Slots : RnGet(s)
  \/ \E s \in Slots : RnCopy(s)
  \/ \E s \in Slots : RnDelete(s)
  \/ \E s \in Slots : RnUpdKey(s)
  \/ \E s \in Slots : RnUpdName(s)
  \/ \E s \in Slots : ProcessMessage(s)
  \/ \E s \in Slots : PmFindChat(s)
  \/ \E s \in Slots : DlFindDataset(s)
  \/ \E s \in Slots : DlFetch(s)
  \/ \E s \in Slots : PmSchema(s)
  \/ \E s \in Slots : PmHistory(s)
  \/ \E s \in Slots : PmAddUser(s)
  \/ \E s \in Slots : PmOracle(s)
  \/ \E s \in Slots : PmAddAssistant(s)
  \/ \E s \in Slots : PmFinish(s)

SpecChat == InitChat /\ [][NextChat]_vars

(***************************************************************************)
(* Properties of the raw SQLite upload                                     *)
(***************************************************************************)
IsUs(op) == op.kind = "uploadSqliteFile"

\* number of bytes in front of run i of a payload
RECURSIVE Offset(_, _)
Offset(data, i) == IF i <= 1 THEN 0 ELSE Offset(data, i - 1) + Width(data[i - 1])

\* the 13 bytes of the signature lie within the first 16 bytes
SignatureWithin16(data) ==
  \E i \in 1..Len(data) : data[i] = Signature /\ Offset(data, i) + 13 <= 16

\* C21: uploadSqliteFile stores the payload verbatim only if its first 16
\* bytes contain the signature; otherwise it returns the error "Invalid
\* SQLite file format" and writes nothing to the blob store; no step of it
\* creates a scratch file or runs the ingestion pipeline.
C21_SignatureGate ==
  /\ [](\A s \in Slots :
          (IsUs(ops[s]) /\ ops[s].pc # "idle") =>
            /\ ~SignatureWithin16(ops[s].text) =>
                 /\ ops[s].pc = "returned"
                 /\ ops[s].result.error = <<"Invalid SQLite file format">>
                 /\ ops[s].result.key = Undefined
                 /\ ~Did(ops[s], "upload")
            /\ ops[s].result.key # Undefined =>
                 /\ SignatureWithin16(ops[s].text)
                 /\ ops[s].result.key \in DOMAIN blobs
                 /\ blobs[ops[s].result.key] = DbContent(ops[s].text)
            /\ ops[s].srcPath = NoPath /\ ops[s].dbPath = NoPath)
  /\ [][\A s \in Slots :
          (IsUs(ops'[s]) /\ ops'[s] # ops[s]) =>
            /\ tempFiles' = tempFiles
            /\ ing' = ing
            /\ blobs' # blobs =>
                 /\ SignatureWithin16(ops'[s].text)
                 /\ \E k \in DOMAIN blobs' \ DOMAIN blobs :
                      blobs' = PutBlob(blobs, k, DbContent(ops'[s].text))]_vars

\* one upload stored with the signature one byte into the payload, one
\* refused although the signature is in the payload, past the 16th byte
C21_Witness ==
  \E s \in Slots, t \in Slots :
    /\ IsUs(ops[s]) /\ ops[s].pc = "returned"
    /\ ops[s].text = <<"x", Signature, "x">>
    /\ ops[s].result.key \in DOMAIN blobs
    /\ IsUs(ops[t]) /\ ops[t].pc = "returned"
    /\ Includes(ops[t].text, Signature)
    /\ ops[t].result.error = <<"Invalid SQLite file format">>

(***************************************************************************)
(* Properties of inferColumnType                                           *)
(***************************************************************************)
StorageClasses == {"TEXT", "INTEGER", "REAL", "BLOB", "NULL"}

\* C22: inferColumnType returns one storage class for every value and never
\* throws: NULL for null and undefined, INTEGER for an integral number and
\* REAL for any other number, INTEGER for a boolean, BLOB for a buffer, TEXT
\* for a string and for every other value.
C22_InferColumnTypeTotal ==
  (call.fn = "inferColumnType" /\ outcome.done) =>
    /\ ~outcome.threw
    /\ outcome.type \in StorageClasses
    /\ outcome.type =
         CASE call.value \in {"null", "undefined"} -> "NULL"
           [] call.value = "integer" -> "INTEGER"
           [] call.value \in {"fraction", "nan", "infinity"} -> "REAL"
           [] call.value = "boolean" -> "INTEGER"
           [] call.value = "buffer" -> "BLOB"
           [] call.value \in {"string", "numeric string"} -> "TEXT"
           [] call.value \in {"object", "array", "bigint", "function"} -> "TEXT"

\* a boolean has been typed
C22_Witness ==
  /\ call.fn = "inferColumnType" /\ call.value = "boolean"
  /\ outcome.done /\ outcome.type = "INTEGER"

(***************************************************************************)
(* Properties of the ingestion mode                                        *)
(***************************************************************************)
TablesOf(db) == {db.tables[i].name : i \in 1..Len(db.tables)}

Declared(tables) == {tables[i].name : i \in 1..Len(tables)}

KeysOf(jsonData) ==
  IF jsonData.isArray THEN {"data"}
  ELSE {jsonData.entries[i].key : i \in 1..Len(jsonData.entries)}

\* C23: the mode of jsonToSqlite follows from its options alone.  With
\* options.tables not empty the file holds the declared tables and no other,
\* whatever inferTypes says; with no tables and inferTypes set it holds
\* inferred tables only (data, or tables named by the payload's keys), each
\* starting with the id column; with neither it holds only json_data, with
\* the columns id and data TEXT and exactly one row, for an array payload
\* as for any other.
C23_ModeByOptions ==
  (call.fn = "jsonToSqlite" /\ outcome.done) =>
    LET db == outcome.db
        tables == call.options.tables
    IN /\ tables # <<>> =>
            /\ TablesOf(db) \subseteq Declared(tables)
            /\ \A i \in 1..Len(tables) :
                 ~CreateRefused(tables[i]) =>
                   /\ TableAt(db, tables[i].name) # 0
                   /\ NamesAndTypes(db.tables[TableAt(db, tables[i].name)].columns)
                        = NamesAndTypes(tables[i].columns)
       /\ (tables = <<>> /\ call.options.inferTypes) =>
            /\ TablesOf(db) \subseteq KeysOf(call.jsonData)
            /\ \A i \in 1..Len(db.tables) :
                 db.tables[i].columns[1] = [name |-> "id", type |-> "INTEGER"]
       /\ (tables = <<>> /\ ~call.options.inferTypes) =>
            /\ ~outcome.crashed /\ ~db.failed
            /\ Len(db.tables) = 1
            /\ db.tables[1].name = "json_data"
            /\ db.tables[1].columns = <<[name |-> "id", type |-> "INTEGER"],
                                        [name |-> "data", type |-> "TEXT"]>>
            /\ db.tables[1].rows = 1

\* an array of records went through the raw fallback
C23_Witness ==
  /\ call.fn = "jsonToSqlite" /\ outcome.done
  /\ call.options.tables = <<>> /\ ~call.options.inferTypes
  /\ call.jsonData.isArray /\ Len(call.jsonData.items) >= 2
  /\ TablesOf(outcome.db) = {"json_data"}

(***************************************************************************)
(* Properties of dataset ownership                                         *)
(***************************************************************************)
\* C24: a step of a deleteDataset or renameDataset request leaves every
\* dataset that belongs to another user than the requester as it was: its
\* row, its storage key and the blob under that key.
C24_OwnerScoped ==
  [][\A s \in Slots : \A d \in DatasetIds :
       (/\ ops'[s] # ops[s]
        /\ ops'[s].kind \in {"deleteDataset", "renameDataset"}
        /\ datasets[d] # NoRow
        /\ datasets[d].user_id # ops'[s].user) =>
         /\ datasets'[d] = datasets[d]
         /\ datasets[d].file_key \in DOMAIN blobs =>
              /\ datasets[d].file_key \in DOMAIN blobs'
              /\ blobs'[datasets[d].file_key] = blobs[datasets[d].file_key]]_vars

\* C25: getPrivateUrl answers with a download URL only for a key that, at
\* that moment, is the storage key of a dataset owned by the caller.
C25_UrlOwnerScoped ==
  [][\A s \in Slots :
       (/\ ops'[s] # ops[s]
        /\ ops'[s].kind = "getPrivateUrl"
        /\ ops'[s].pc = "returned"
        /\ ops'[s].result.content # Undefined) =>
         \E d \in DatasetIds :
           /\ datasets[d] # NoRow
           /\ datasets[d].file_key = ops'[s].text
           /\ datasets[d].user_id = ops'[s].user]_vars

(***************************************************************************)
(* Properties of the scratch directory                                     *)
(***************************************************************************)
\* a processJsonFile / processCsvFile run between writing its source file
\* and removing its scratch files
UsingScratch(op) ==
  IsMat(op) /\ op.pc \in {"mt_ingest", "mt_read", "mt_upload", "mt_cleanup"}

\* C26: a scratch file of a run that is still using it is not removed by a
\* step of anything but that run.
C26_ScratchOwnedWhileInFlight ==
  [][\A s \in Slots : \A p \in {ops[s].srcPath, ops[s].dbPath} :
       (/\ UsingScratch(ops[s])
        /\ ops'[s] = ops[s]
        /\ p \in DOMAIN tempFiles) => p \in DOMAIN tempFiles']_vars

NoCallFailed(op) ==
  /\ ~op.failed
  /\ op.result.error \notin {<<"Failed to delete dataset from storage">>,
                             <<"Failed to rename dataset in storage">>,
                             <<"Failed to upload dataset to storage">>}

Quiescent ==
  \A s \in Slots :
    /\ ops[s].pc \in {"idle", "returned"}
    /\ ops[s].kind \in {"none", "uploadDataset", "deleteDataset", "renameDataset"}
    /\ NoCallFailed(ops[s])

RowsOf(key) == {d \in DatasetIds : datasets[d] # NoRow /\ datasets[d].file_key = key}

\* C28: once all uploadDataset, deleteDataset and renameDataset requests
\* have completed, none of their collaborator calls having failed, every
\* dataset row's file_key names a blob and every blob is referenced by
\* exactly one dataset row.
C28_StoresConsistentAtQuiescence ==
  Quiescent =>
    /\ \A d \in DatasetIds :
         datasets[d] # NoRow => datasets[d].file_key \in DOMAIN blobs
    /\ \A k \in DOMAIN blobs : Cardinality(RowsOf(k)) = 1

(***************************************************************************)
(* Properties of what a chat exposes                                       *)
(***************************************************************************)
\* the user whose upload a blob content is
ContentOwner(content) == InitialDatasets[content.src].user_id

\* C29: every chat's dataset_id refers to a dataset row of the chat's own
\* user, and what a processMessage run that passed the chat-ownership check
\* downloads to its scratch file is data of the requesting user.
C29_ChatExposesOwnData ==
  /\ [](\A c \in ChatIds :
          chats[c] # NoRow =>
            /\ datasets[chats[c].dataset_id] # NoRow
            /\ datasets[chats[c].dataset_id].user_id = chats[c].user_id)
  /\ [][\A s \in Slots :
          (/\ ops'[s].kind = "processMessage"
           /\ ops[s].pc = "dl_fetch"
           /\ ops'[s].pc = "pm_schema") =>
            ContentOwner(tempFiles'[ops'[s].dbPath]) = ops'[s].user]_vars

(***************************************************************************)
(* Properties of a failed processMessage run                               *)
(***************************************************************************)
Turns(rows, role) == Cardinality({n \in 1..Len(rows) : rows[n].role = role})

\* the processMessage runs on a chat that have not returned an error
NotFailedOn(c) ==
  {s \in Slots : /\ IsPm(ops[s]) /\ ops[s].chatId = c
                 /\ ~(ops[s].pc = "returned" /\ ops[s].result.error # Undefined)}

\* C30: a processMessage run that returns an error leaves the chat's
\* message list as it was, so every persisted user turn comes from a run
\* that has not failed, and the history a run reads while no other run is
\* in flight holds one assistant turn for every user turn.
C30_FailedRunLeavesNoTrace ==
  /\ [](\A c \in ChatIds :
          Turns(messages[c], "user") <= Cardinality(NotFailedOn(c)))
  /\ [][\A s \in Slots :
          (/\ ops[s].pc = "pm_history"
           /\ ops'[s].pc = "pm_addUser"
           /\ \A t \in Slots \ {s} : ~InFlight(ops[t])) =>
            Turns(ops'[s].history, "user") = Turns(ops'[s].history, "assistant")]_vars

====
